---- MODULE Spec2Model ----
(***************************************************************************)
(* A model of the ReqIF normalisation pipeline: the five repair passes of  *)
(* main.py over a Bundle, the two-attempt conversion orchestrator, the     *)
(* archive aggregators of main.py and main_strictdoc.py, and the flattener *)
(* of main_strictdoc.py.                                                   *)
(*                                                                         *)
(* Texts are sequences of one-character strings, so that upper-casing,     *)
(* replacing, stripping and suffixing are computed character by character. *)
(* Identifiers of SpecObjects, HierarchyNodes and archive members are      *)
(* plain strings: the code only compares them.                             *)
(***************************************************************************)
EXTENDS Integers, Sequences, FiniteSets, TLC

VARIABLES
    bundle,       \* the Bundle the passes / the orchestrator work on (mutated in place)
    bundle0,      \* history: the Bundle as the parser delivered it
    lastPass,     \* pass specification: the repair pass that ran last ("none" at first)
    lastReturn,   \* pass specification: the list that pass returned
    pc,           \* orchestrator: position inside convert_reqif_to_json
    result,       \* orchestrator: local variable result
    workarounds,  \* orchestrator: local variable workarounds
    ret,          \* orchestrator: the ConversionResult returned to the caller
    trace,        \* orchestrator history: conversion calls and repair runs, in order
    archive,      \* aggregators: z_bundle, [reqif_bundles, attachments]
    archive0,     \* history: the archive as it is on disk
    apc,          \* aggregators: position inside process_reqifz_file
    idx,          \* aggregators: index of the next member of reqif_bundles
    jdx,          \* aggregators: index of the next entry of attachments
    acc,          \* main.py: all_documents, all_workarounds, extracted_attachments, errors
    all_results,  \* main_strictdoc.py: all_results
    aret,         \* aggregators: what process_reqifz_file returned
    hist,         \* history: members processed, files written, exceptions raised
    content,      \* preprocessor: the text preprocess_reqif_xml was last given or returned
    tree,         \* flatteners: the hierarchy (or Bundle) handed to the flattener
    flattened     \* flatteners: the requirements and links the flattener returned

vars == <<bundle, bundle0, lastPass, lastReturn,
          pc, result, workarounds, ret, trace,
          archive, archive0, apc, idx, jdx, acc, all_results, aret, hist,
          content, tree, flattened>>

passVars == <<lastPass, lastReturn>>
orchVars == <<pc, result, workarounds, ret, trace>>
archVars == <<archive, archive0, apc, idx, jdx, acc, all_results, aret, hist>>
pureVars == <<content, tree, flattened>>

NotRun == [requirements |-> <<>>, links |-> <<>>, ran |-> FALSE]
PureIdle == content = <<>> /\ tree = <<>> /\ flattened = NotRun

(***************************************************************************)
(* Generic helpers.                                                        *)
(***************************************************************************)
Min(a, b) == IF a < b THEN a ELSE b

SeqsUpTo(S, n) == UNION {[1..k -> S] : k \in 0..n}

RECURSIVE Concat(_)
Concat(ss) == IF ss = <<>> THEN <<>> ELSE Head(ss) \o Concat(Tail(ss))

Range(s) == {s[i] : i \in DOMAIN s}

(***************************************************************************)
(* Text: Python str operations used by the passes.                         *)
(***************************************************************************)
\* Python's None where a text is expected: a token no text contains.
None == <<"None">>

Whitespace == {" "}

LowerToUpper == [c \in {"a", "b", "t", "r", "n"} |->
                    CASE c = "a" -> "A" [] c = "b" -> "B" [] c = "t" -> "T"
                      [] c = "r" -> "R" [] c = "n" -> "N"]

AlnumUnderscore == {"a", "b", "t", "r", "n", "A", "B", "T", "R", "N", "_",
                    "0", "1", "2", "3", "4", "5", "6", "7", "8", "9"}

\* str.upper()
Upper(s) == [i \in DOMAIN s |-> IF s[i] \in DOMAIN LowerToUpper THEN LowerToUpper[s[i]] ELSE s[i]]

\* str.replace(old, new) for a one-character old
Replace(s, old, new) == [i \in DOMAIN s |-> IF s[i] = old THEN new ELSE s[i]]

\* re.sub(r"[^A-Za-z0-9_]", "", s)
StripNonWord(s) == SelectSeq(s, LAMBDA c : c \in AlnumUnderscore)

RECURSIVE LStrip(_)
LStrip(s) == IF s # <<>> /\ Head(s) \in Whitespace THEN LStrip(Tail(s)) ELSE s

RECURSIVE RStrip(_)
RStrip(s) == IF s # <<>> /\ s[Len(s)] \in Whitespace THEN RStrip(SubSeq(s, 1, Len(s) - 1)) ELSE s

\* str.strip()
Strip(s) == RStrip(LStrip(s))

Digit == [d \in 0..9 |-> CASE d = 0 -> "0" [] d = 1 -> "1" [] d = 2 -> "2" [] d = 3 -> "3"
                           [] d = 4 -> "4" [] d = 5 -> "5" [] d = 6 -> "6" [] d = 7 -> "7"
                           [] d = 8 -> "8" [] d = 9 -> "9"]

RECURSIVE Str(_)
\* str(n) of a natural number, as in an f-string
Str(n) == IF n < 10 THEN <<Digit[n]>> ELSE Str(n \div 10) \o <<Digit[n % 10]>>

(***************************************************************************)
(* The Bundle.                                                             *)
(*   bundle.has_content   : bundle.core_content.req_if_content is there    *)
(*   bundle.spec_types    : sequence of [identifier, long_name,            *)
(*                          attribute_definitions]                         *)
(*   attribute definition : [long_name, attribute_type]                    *)
(*   bundle.spec_objects  : sequence of [identifier, attributes]           *)
(*   attribute            : [attribute_type, value]                        *)
(*   value                : [kind, text, flag, num], kind one of           *)
(*                          "none", "str", "bool", "int"                   *)
(*   bundle.specifications: sequence of [identifier, children]             *)
(*   hierarchy node       : [identifier, spec_object, children]            *)
(*   bundle.spec_relations: sequence of [source, target, relation_type_ref]*)
(*   bundle.lookup        : spec_relations_parent_lookup, a function from  *)
(*                          sources to sequences of targets                *)
(***************************************************************************)
NoneValue == [kind |-> "none", text |-> <<>>, flag |-> FALSE, num |-> 0]
StrValue(t) == [kind |-> "str", text |-> t, flag |-> FALSE, num |-> 0]
BoolValue(f) == [kind |-> "bool", text |-> <<>>, flag |-> f, num |-> 0]
IntValue(n) == [kind |-> "int", text |-> <<>>, flag |-> FALSE, num |-> n]

EmptyLookup == [s \in {} |-> <<>>]

\* a relation_type_ref that is None or "" is "not specified"
NoRef == <<>>

UnsupportedTypes == {"BOOLEAN", "REAL", "INTEGER", "DATE"}

(***************************************************************************)
(* Pass 1: fix_unsupported_attribute_types.  Every pass is an operator     *)
(* from the Bundle to [bundle |-> the mutated Bundle, ret |-> the list     *)
(* returned].                                                              *)
(***************************************************************************)
FixDefinitionTypes(defs) ==
    [i \in DOMAIN defs |->
        IF defs[i].attribute_type \in UnsupportedTypes
        THEN [defs[i] EXCEPT !.attribute_type = "STRING"]
        ELSE defs[i]]

RECURSIVE FixedFieldsOf(_)
\* one "<long_name>:<type name>" entry per converted definition, in declaration order
FixedFieldsOf(defs) ==
    IF defs = <<>> THEN <<>>
    ELSE (IF Head(defs).attribute_type \in UnsupportedTypes
          THEN <<[long_name |-> Head(defs).long_name, type |-> Head(defs).attribute_type]>>
          ELSE <<>>) \o FixedFieldsOf(Tail(defs))

\* a conversion that leaves numbers as they are
CoerceValueKeepingNumbers(v) ==
    CASE v.kind = "bool" -> StrValue(IF v.flag THEN <<"t", "r", "u", "e">>
                                               ELSE <<"f", "a", "l", "s", "e">>)
      [] OTHER           -> v

\* the conversion of a stored value to text (main.py 104-108)
CoerceValue(v) ==
    CASE v.kind = "none" -> v
      [] v.kind = "bool" -> StrValue(IF v.flag THEN <<"t", "r", "u", "e">>
                                               ELSE <<"f", "a", "l", "s", "e">>)
      [] v.kind = "str"  -> v
      [] OTHER           -> StrValue(Str(v.num))

\* main.py 100-108; the attribute is changed in place and keeps its other fields
FixAttributeTypes(attrs) ==
    [i \in DOMAIN attrs |->
        IF attrs[i].attribute_type \in UnsupportedTypes
        THEN [attrs[i] EXCEPT !.attribute_type = "STRING", !.value = CoerceValue(@)]
        ELSE attrs[i]]

FixUnsupportedAttributeTypes(b) ==
    IF ~b.has_content \/ b.spec_types = <<>>
    THEN [bundle |-> b, ret |-> <<>>]
    ELSE [bundle |->
            [b EXCEPT
               !.spec_types = [i \in DOMAIN b.spec_types |->
                   [b.spec_types[i] EXCEPT !.attribute_definitions = FixDefinitionTypes(@)]],
               !.spec_objects = [i \in DOMAIN b.spec_objects |->
                   [b.spec_objects[i] EXCEPT !.attributes = FixAttributeTypes(@)]]],
          ret |-> Concat([i \in DOMAIN b.spec_types |->
                            FixedFieldsOf(b.spec_types[i].attribute_definitions)])]

(***************************************************************************)
(* Pass 2: fix_missing_spec_type_names.                                    *)
(***************************************************************************)
REQUIREMENT == <<"R", "E", "Q", "U", "I", "R", "E", "M", "E", "N", "T">>

NameMissing(t) == t.long_name = None \/ Strip(t.long_name) = <<>>

\* spec_type.identifier or "REQUIREMENT"
FallbackName(t) == IF t.identifier = None \/ t.identifier = <<>> THEN REQUIREMENT ELSE t.identifier

FixMissingSpecTypeNames(b) ==
    IF ~b.has_content \/ b.spec_types = <<>>
    THEN [bundle |-> b, ret |-> <<>>]
    ELSE [bundle |->
            [b EXCEPT !.spec_types = [i \in DOMAIN b.spec_types |->
                IF NameMissing(b.spec_types[i])
                THEN [b.spec_types[i] EXCEPT !.long_name = FallbackName(b.spec_types[i])]
                ELSE b.spec_types[i]]],
          ret |-> Concat([i \in DOMAIN b.spec_types |->
                            IF NameMissing(b.spec_types[i])
                            THEN <<b.spec_types[i].identifier>> ELSE <<>>])]

(***************************************************************************)
(* Pass 3: fix_duplicate_field_names.                                      *)
(***************************************************************************)
\* The reserved display names of the downstream schema and what it calls them.
\* map_reqif_field_title_to_sdoc_field_title renames the reserved names and
\* leaves every other name alone ("r.n" stands for the reserved name, "T" for
\* the schema's field).
ReservedFieldMap == (<<"r", ".", "n">> :> <<"T">>)

MapReqifFieldTitle(long_name) ==
    IF long_name \in DOMAIN ReservedFieldMap THEN ReservedFieldMap[long_name] ELSE long_name

\* safe_name of main.py 164-167: the normalized key of a display name
SafeName(long_name) ==
    StripNonWord(Replace(Replace(Upper(MapReqifFieldTitle(long_name)), ".", "_"), "-", "_"))

RECURSIVE RenameDuplicates(_, _)
\* the loop of main.py 162-178 over the definitions of one SpecType, from the
\* dictionary seen_names on: [defs |-> the definitions, renamed |-> the records,
\* raised |-> whether the loop was left by an exception].  A definition without
\* a display name (long_name None) makes line 164 or 166 raise: the mapping
\* refuses None, or returns it and None has no upper(); the definitions before
\* it have been renamed by then and those after it are not looked at.
RenameDuplicates(defs, seen_names) ==
    IF defs = <<>> THEN [defs |-> <<>>, renamed |-> <<>>, raised |-> FALSE]
    ELSE LET attr == Head(defs)
             safe_name == SafeName(attr.long_name)
         IN  IF attr.long_name = None
             THEN [defs |-> defs, renamed |-> <<>>, raised |-> TRUE]
             ELSE IF safe_name \in DOMAIN seen_names
             THEN LET count == seen_names[safe_name] + 1
                      new_name == attr.long_name \o <<"_">> \o Str(count)
                      rest == RenameDuplicates(Tail(defs), [seen_names EXCEPT ![safe_name] = count])
                  IN  [defs |-> <<[attr EXCEPT !.long_name = new_name]>> \o rest.defs,
                       renamed |-> <<[old |-> attr.long_name, new |-> new_name]>> \o rest.renamed,
                       raised |-> rest.raised]
             ELSE LET rest == RenameDuplicates(Tail(defs), seen_names @@ (safe_name :> 1))
                  IN  [defs |-> <<attr>> \o rest.defs, renamed |-> rest.renamed,
                       raised |-> rest.raised]

RECURSIVE RenameInSpecTypes(_)
\* the loop of main.py 155-178 over the SpecTypes; an exception leaves it, and
\* the SpecTypes after the one that raised are not looked at
RenameInSpecTypes(types) ==
    IF types = <<>> THEN [types |-> <<>>, renamed |-> <<>>, raised |-> FALSE]
    ELSE LET fixed == RenameDuplicates(Head(types).attribute_definitions, EmptyLookup)
             spec_type == [Head(types) EXCEPT !.attribute_definitions = fixed.defs]
             rest == RenameInSpecTypes(Tail(types))
         IN  IF fixed.raised
             THEN [types |-> <<spec_type>> \o Tail(types), renamed |-> fixed.renamed, raised |-> TRUE]
             ELSE [types |-> <<spec_type>> \o rest.types,
                   renamed |-> fixed.renamed \o rest.renamed, raised |-> rest.raised]

\* the whole pass; `except Exception: pass` (main.py 180-181) swallows the
\* exception and the list built so far is returned
FixDuplicateFieldNames(b) ==
    IF ~b.has_content \/ b.spec_types = <<>>
    THEN [bundle |-> b, ret |-> <<>>, raised |-> FALSE]
    ELSE LET fixed == RenameInSpecTypes(b.spec_types)
         IN  [bundle |-> [b EXCEPT !.spec_types = fixed.types],
              ret |-> fixed.renamed, raised |-> fixed.raised]

(***************************************************************************)
(* Pass 4: fix_empty_attribute_values.                                     *)
(***************************************************************************)
\* a filter on the truth value of the value: false, 0 and "" are dropped,
\* a blank string is kept
KeepsAttributeIfTruthy(attr) ==
    /\ attr.value.kind # "none"
    /\ attr.value.kind = "str" => attr.value.text # <<>>
    /\ attr.value.kind = "bool" => attr.value.flag
    /\ attr.value.kind = "int" => attr.value.num # 0

\* the filter of main.py 206-208
KeepsAttribute(attr) ==
    /\ attr.value.kind # "none"
    /\ attr.value.kind # "str" \/ Strip(attr.value.text) # <<>>

FixEmptyAttributeValues(b) ==
    IF ~b.has_content \/ b.spec_objects = <<>>
    THEN [bundle |-> b, ret |-> <<>>]
    ELSE LET kept == [i \in DOMAIN b.spec_objects |->
                         SelectSeq(b.spec_objects[i].attributes, KeepsAttribute)]
         IN  [bundle |-> [b EXCEPT !.spec_objects = [i \in DOMAIN b.spec_objects |->
                              [b.spec_objects[i] EXCEPT !.attributes = kept[i]]]],
              ret |-> Concat([i \in DOMAIN b.spec_objects |->
                                IF Len(kept[i]) < Len(b.spec_objects[i].attributes)
                                THEN <<b.spec_objects[i].identifier>> ELSE <<>>])]

(***************************************************************************)
(* Pass 5: fix_missing_spec_object_refs.                                   *)
(***************************************************************************)
\* a filter that checks the root nodes only and keeps their subtrees as they are
FilterValidNodesShallow(nodes, valid_refs) ==
    [nodes |-> SelectSeq(nodes, LAMBDA node : node.spec_object \in valid_refs),
     removed |-> LET gone == SelectSeq(nodes, LAMBDA node : node.spec_object \notin valid_refs)
                 IN  [i \in DOMAIN gone |-> [what |-> "hierarchy", id |-> gone[i].identifier]]]

RECURSIVE FilterValidNodesPromoting(_, _)
\* a filter that removes the node alone and puts its valid descendants in its place
FilterValidNodesPromoting(nodes, valid_refs) ==
    IF nodes = <<>> THEN [nodes |-> <<>>, removed |-> <<>>]
    ELSE LET node == Head(nodes)
             sub == FilterValidNodesPromoting(node.children, valid_refs)
             rest == FilterValidNodesPromoting(Tail(nodes), valid_refs)
         IN  IF node.spec_object \in valid_refs
             THEN [nodes |-> <<[node EXCEPT !.children = sub.nodes]>> \o rest.nodes,
                   removed |-> sub.removed \o rest.removed]
             ELSE [nodes |-> sub.nodes \o rest.nodes,
                   removed |-> <<[what |-> "hierarchy", id |-> node.identifier]>>
                               \o sub.removed \o rest.removed]

RECURSIVE FilterValidNodes(_, _)
\* filter_valid_nodes: [nodes |-> valid_nodes, removed |-> the "hierarchy:<id>"
\* records appended to removed_items, in the order the loop appends them]
FilterValidNodes(nodes, valid_refs) ==
    IF nodes = <<>> THEN [nodes |-> <<>>, removed |-> <<>>]
    ELSE LET node == Head(nodes)
             rest == FilterValidNodes(Tail(nodes), valid_refs)
         IN  IF node.spec_object \in valid_refs
             THEN LET sub == FilterValidNodes(node.children, valid_refs)
                  IN  [nodes |-> <<[node EXCEPT !.children = sub.nodes]>> \o rest.nodes,
                       removed |-> sub.removed \o rest.removed]
             ELSE [nodes |-> rest.nodes,
                   removed |-> <<[what |-> "hierarchy", id |-> node.identifier]>> \o rest.removed]

\* main.py 268-274
RelationValid(rel, valid_refs, valid_type_refs) ==
    /\ rel.source \in valid_refs
    /\ rel.target \in valid_refs
    /\ rel.relation_type_ref # NoRef => rel.relation_type_ref \in valid_type_refs

RECURSIVE BuildParentLookup(_, _)
\* main.py 285-288, from the dictionary lookup on
BuildParentLookup(rels, lookup) ==
    IF rels = <<>> THEN lookup
    ELSE LET rel == Head(rels)
         IN  BuildParentLookup(Tail(rels),
                 IF rel.source \in DOMAIN lookup
                 THEN [lookup EXCEPT ![rel.source] = Append(@, rel.target)]
                 ELSE lookup @@ (rel.source :> <<rel.target>>))

\* a rebuild that forgets to clear the dictionary first
RebuildLookupNoClear(lookup, rels) == BuildParentLookup(rels, lookup)

\* a rebuild that makes the entry of a source from its first relation and
\* does not append the targets of its later ones
RebuildLookupFirstTargetOnly(lookup, rels) ==
    [src \in {rels[i].source : i \in DOMAIN rels} |->
        LET first == CHOOSE i \in DOMAIN rels :
                        rels[i].source = src /\ \A j \in 1..(i - 1) : rels[j].source # src
        IN  <<rels[first].target>>]

\* main.py 282-288: clear the dictionary, then fill it from the relations
RebuildLookup(lookup, rels) == BuildParentLookup(rels, EmptyLookup)

FixMissingSpecObjectRefs(b) ==
    IF ~b.has_content
    THEN [bundle |-> b, ret |-> <<>>]
    ELSE LET valid_refs == {b.spec_objects[i].identifier : i \in DOMAIN b.spec_objects}
             filtered == [i \in DOMAIN b.specifications |->
                             FilterValidNodes(b.specifications[i].children, valid_refs)]
             valid_type_refs == {b.spec_types[i].identifier : i \in DOMAIN b.spec_types}
             valid_relations == SelectSeq(b.spec_relations,
                                    LAMBDA rel : RelationValid(rel, valid_refs, valid_type_refs))
             removed_count == Len(b.spec_relations) - Len(valid_relations)
         IN  [bundle |->
                [b EXCEPT
                   !.specifications = [i \in DOMAIN b.specifications |->
                       [b.specifications[i] EXCEPT !.children = filtered[i].nodes]],
                   !.spec_relations = valid_relations,
                   !.lookup = RebuildLookup(b.lookup, valid_relations)],
              ret |-> Concat([i \in DOMAIN b.specifications |-> filtered[i].removed])
                      \o (IF removed_count > 0
                          THEN <<[what |-> "relations", count |-> removed_count]>>
                          ELSE <<>>)]

(***************************************************************************)
(* apply_workarounds: the five passes in their fixed order, each on the    *)
(* Bundle the pass before left; one description per pass that returned a   *)
(* non-empty list.                                                         *)
(***************************************************************************)
\* f"...: {', '.join(fixes)}", appended if fixes is not empty
DescribeList(pass, fixes) == IF fixes # <<>> THEN <<[pass |-> pass, fixes |-> fixes]>> ELSE <<>>

\* f"... {len(fixes)} ...", appended if fixes is not empty
DescribeCount(pass, fixes) == IF fixes # <<>> THEN <<[pass |-> pass, count |-> Len(fixes)]>> ELSE <<>>

ApplyWorkarounds(b) ==
    LET type_fixes  == FixUnsupportedAttributeTypes(b)
        name_fixes  == FixMissingSpecTypeNames(type_fixes.bundle)
        dup_fixes   == FixDuplicateFieldNames(name_fixes.bundle)
        empty_fixes == FixEmptyAttributeValues(dup_fixes.bundle)
        ref_fixes   == FixMissingSpecObjectRefs(empty_fixes.bundle)
    IN  [bundle |-> ref_fixes.bundle,
         ret |-> DescribeList("types", type_fixes.ret)
                 \o DescribeCount("names", name_fixes.ret)
                 \o DescribeList("dups", dup_fixes.ret)
                 \o DescribeCount("empty", empty_fixes.ret)
                 \o DescribeList("refs", ref_fixes.ret)]

(***************************************************************************)
(* The external conversion step and convert_bundle_to_json.                *)
(*                                                                         *)
(* An error message is [tag, len]: which message it is and how many        *)
(* characters of it there are.  A document is left abstract here: [title,  *)
(* section_contents].  The behaviour of the external step on one call is   *)
(* an outcome [kind, docs, err]: it returns documents ("ok"), returns no   *)
(* document ("empty") or raises ("raise").                                 *)
(***************************************************************************)
ErrorLimit == 500
ParseErrorLimit == 300

NoError == [tag |-> "None", len |-> 0]
NoSpecificationsError == [tag |-> "No specifications found in ReqIF file", len |-> 37]

\* str(e)[:limit]
Truncate(err, limit) == [err EXCEPT !.len = Min(@, limit)]

NoData == [present |-> FALSE, DOCUMENTS |-> <<>>, WORKAROUNDS_APPLIED |-> <<>>]

ConversionResult(success, data, error, workarounds_applied) ==
    [success |-> success, data |-> data, error |-> error,
     workarounds_applied |-> workarounds_applied]

\* JSONGenerator._write_document: the dictionary of one document (its nodes as
\* the external generator writes them, which nothing here reads); the key
\* _SOURCE_FILE is not there yet
WriteDocument(doc) == [TITLE |-> doc.title, NODES |-> doc.section_contents, SOURCE_FILE |-> ""]

\* convert_bundle_to_json(bundle, workarounds_applied), the external step
\* behaving as outcome says
ConvertBundleToJson(b, outcome, workarounds_applied) ==
    CASE outcome.kind = "raise" ->
            ConversionResult(FALSE, NoData, Truncate(outcome.err, ErrorLimit), workarounds_applied)
      [] outcome.kind = "empty" ->
            ConversionResult(FALSE, NoData, NoSpecificationsError, <<>>)
      [] OTHER ->
            ConversionResult(TRUE,
                [present |-> TRUE,
                 DOCUMENTS |-> [i \in DOMAIN outcome.docs |-> WriteDocument(outcome.docs[i])],
                 WORKAROUNDS_APPLIED |-> workarounds_applied],
                NoError, workarounds_applied)

\* a tail that returns the result of the last conversion as it is
FailedResultAsConverted(last, applied) == last

\* the tail of convert_reqif_to_json (main.py 396-401)
FailedResult(last, applied) == ConversionResult(FALSE, NoData, last.error, applied)

(***************************************************************************)
(* main_strictdoc.py: serialize_document and flatten_document.             *)
(*                                                                         *)
(* A converted document is [title, grammar, section_contents]; grammar     *)
(* maps a node type to the set of its field titles.  An entry of           *)
(* section_contents is [sdoc_node, node_type, fields, custom_level,        *)
(* is_composite, section_contents]: sdoc_node says whether it is an        *)
(* SDocNode, fields maps a field title to the text of its last value,      *)
(* custom_level is None or a text.  A serialized node is [NODE_TYPE, TOC,  *)
(* fields, NODES], fields holding the keys that do not start with "_".     *)
(***************************************************************************)
RECURSIVE JoinLevels(_)
\* ".".join(map(str, level_stack))
JoinLevels(level_stack) ==
    IF level_stack = <<>> THEN <<>>
    ELSE IF Len(level_stack) = 1 THEN Str(level_stack[1])
    ELSE Str(Head(level_stack)) \o <<".">> \o JoinLevels(Tail(level_stack))

\* main_strictdoc.py 78-83
LevelString(node, level_stack) ==
    IF node.custom_level # None /\ node.custom_level # <<>> /\ node.custom_level # <<"N", "o", "n", "e">>
    THEN node.custom_level
    ELSE JoinLevels(level_stack)

RECURSIVE SerializeNodes(_, _, _, _)
\* the loop of main_strictdoc.py 104-112 (and 137-143) over contents, from
\* current_number on, with serialize_node for every SDocNode
SerializeNodes(contents, grammar, level_stack, current_number) ==
    IF contents = <<>> THEN <<>>
    ELSE LET node == Head(contents)
             number == IF node.custom_level = None THEN current_number + 1 ELSE current_number
             stack == Append(level_stack, number)
             titles == IF node.node_type \in DOMAIN grammar THEN grammar[node.node_type] ELSE {}
         IN  IF ~node.sdoc_node
             THEN SerializeNodes(Tail(contents), grammar, level_stack, current_number)
             ELSE <<[NODE_TYPE |-> node.node_type,
                     TOC |-> LevelString(node, stack),
                     fields |-> [t \in titles \cap DOMAIN node.fields |-> node.fields[t]],
                     NODES |-> IF node.is_composite
                               THEN SerializeNodes(node.section_contents, grammar, stack, 0)
                               ELSE <<>>]>>
                  \o SerializeNodes(Tail(contents), grammar, level_stack, number)

\* serialize_document: the keys GRAMMAR and _OPTIONS are written and never read
SerializeDocument(document) ==
    [TITLE |-> document.title,
     NODES |-> SerializeNodes(document.section_contents, document.grammar, <<>>, 0),
     SOURCE_FILE |-> ""]

\* the end of the match of <[^>]+> at the head of s, 0 if there is none
TagEnd(s) ==
    LET closing == {k \in 2..Len(s) : s[k] = ">"}
    IN  IF closing = {} THEN 0
        ELSE LET first == CHOOSE k \in closing : \A l \in closing : k <= l
             IN  IF first >= 3 THEN first ELSE 0

RECURSIVE RemoveTags(_)
\* re.sub(r"<[^>]+>", "", s)
RemoveTags(s) ==
    IF s = <<>> THEN <<>>
    ELSE IF Head(s) = "<" /\ TagEnd(s) > 0
         THEN RemoveTags(SubSeq(s, TagEnd(s) + 1, Len(s)))
         ELSE <<Head(s)>> \o RemoveTags(Tail(s))

RECURSIVE CollapseWhitespace(_)
\* " ".join(s.split()) of a text without leading whitespace
CollapseWhitespace(s) ==
    IF s = <<>> THEN <<>>
    ELSE IF Head(s) \in Whitespace
         THEN (IF LStrip(s) = <<>> THEN <<>> ELSE <<" ">> \o CollapseWhitespace(LStrip(s)))
         ELSE <<Head(s)>> \o CollapseWhitespace(Tail(s))

\* clean_html
CleanHtml(html_str) ==
    IF html_str = <<>> THEN <<>> ELSE CollapseWhitespace(LStrip(RemoveTags(html_str)))

\* dict.get(key, "")
Get(fields, key) == IF key \in DOMAIN fields THEN fields[key] ELSE <<>>

\* the name taken from the text attribute first and from the title only after it
RequirementOfTextFirst(node) ==
    [id |-> Get(node.fields, "UID"),
     name |-> IF CleanHtml(Get(node.fields, "STATEMENT")) # <<>> THEN CleanHtml(Get(node.fields, "STATEMENT"))
              ELSE Get(node.fields, "TITLE"),
     type |-> node.NODE_TYPE,
     attributes |-> [k \in DOMAIN node.fields \ {"UID"} |-> node.fields[k]],
     toc |-> node.TOC,
     source_file |-> ""]

\* main_strictdoc.py 159-174
RequirementOf(node) ==
    [id |-> Get(node.fields, "UID"),
     name |-> IF Get(node.fields, "TITLE") # <<>> THEN Get(node.fields, "TITLE")
              ELSE CleanHtml(Get(node.fields, "STATEMENT")),
     type |-> node.NODE_TYPE,
     attributes |-> [k \in DOMAIN node.fields \ {"UID"} |-> node.fields[k]],
     toc |-> node.TOC,
     source_file |-> ""]

RECURSIVE ProcessNodes(_, _)
\* process_nodes(nodes, parent_uid): [requirements, links] appended, in order
ProcessNodes(nodes, parent_uid) ==
    IF nodes = <<>> THEN [requirements |-> <<>>, links |-> <<>>]
    ELSE LET node == Head(nodes)
             uid == Get(node.fields, "UID")
             below == ProcessNodes(node.NODES, uid)
             rest == ProcessNodes(Tail(nodes), parent_uid)
         IN  [requirements |-> <<RequirementOf(node)>> \o below.requirements \o rest.requirements,
              links |-> (IF parent_uid # <<>> /\ uid # <<>>
                         THEN <<[source |-> parent_uid, type |-> "hierarchy", target |-> uid]>>
                         ELSE <<>>) \o below.links \o rest.links]

\* flatten_document; the first call has parent_uid None
FlattenDocument(doc_dict) == ProcessNodes(doc_dict.NODES, <<>>)

(***************************************************************************)
(* Bundles as the parser delivers them.                                    *)
(***************************************************************************)
MaxDefs == 3      \* attribute definitions per SpecType
MaxNodes == 3     \* hierarchy nodes per Bundle
MaxRels == 2      \* SpecRelations per Bundle

\* the parser fills spec_relations_parent_lookup from the relations it read
ParserLookup(rels) == BuildParentLookup(rels, EmptyLookup)

NoContentBundle ==
    [has_content |-> FALSE, spec_types |-> <<>>, spec_objects |-> <<>>,
     specifications |-> <<>>, spec_relations |-> <<>>, lookup |-> EmptyLookup]

MakeBundle(types, objects, specs, rels) ==
    [has_content |-> TRUE, spec_types |-> types, spec_objects |-> objects,
     specifications |-> specs, spec_relations |-> rels, lookup |-> ParserLookup(rels)]

SpecTypeOf(id, name, defs) == [identifier |-> id, long_name |-> name, attribute_definitions |-> defs]
SpecObjectOf(id, attrs) == [identifier |-> id, attributes |-> attrs]
RelationOf(source, target, type) == [source |-> source, target |-> target, relation_type_ref |-> type]

\* display names: equal up to case, up to stripped characters, up to '-' and
\* '.' against '_', names that already end in a _<n> suffix, a reserved name
\* and a name that collides with what the reserved name is mapped to
AttrNames == { <<"a">>, <<"A">>, <<"a", "!">>, <<"a", "_", "2">>, <<"a", "-", "2">>,
               <<"b">>, <<"r", ".", "n">>, <<"t">> }

\* one SpecType: its definitions are all of kind STRING and differ in their names
NameBundles ==
    { MakeBundle(<<SpecTypeOf(<<"t">>, <<"T">>, defs)>>, <<>>, <<>>, <<>>) :
        defs \in SeqsUpTo([long_name : AttrNames, attribute_type : {"STRING"}], MaxDefs) }

RECURSIVE Size(_)
\* number of nodes of a forest
Size(nodes) == IF nodes = <<>> THEN 0 ELSE 1 + Size(Head(nodes).children) + Size(Tail(nodes))

RECURSIVE ForestsUpTo(_, _)
\* every forest of at most n nodes whose nodes reference members of Refs
ForestsUpTo(n, Refs) ==
    IF n = 0 THEN {<<>>}
    ELSE LET smaller == ForestsUpTo(n - 1, Refs)
         IN  {<<>>} \cup
             { <<[identifier |-> "n", spec_object |-> r, children |-> p[1]]>> \o p[2] :
                 r \in Refs, p \in {q \in smaller \X smaller : Size(q[1]) + Size(q[2]) <= n - 1} }

RECURSIVE Relabel(_, _)
\* node identifiers n1, n2, ... in document order
Relabel(nodes, k) ==
    IF nodes = <<>> THEN [nodes |-> <<>>, next |-> k]
    ELSE LET sub == Relabel(Head(nodes).children, k + 1)
             rest == Relabel(Tail(nodes), sub.next)
         IN  [nodes |-> <<[Head(nodes) EXCEPT !.identifier = "n" \o ToString(k),
                                              !.children = sub.nodes]>> \o rest.nodes,
              next |-> rest.next]

SpecificationOf(id, nodes) == [identifier |-> id, children |-> nodes]

\* the root nodes of a forest, spread over one or two Specifications
Specifications(forest) ==
    {<<SpecificationOf("s1", forest)>>} \cup
    { <<SpecificationOf("s1", SubSeq(forest, 1, k)), SpecificationOf("s2", SubSeq(forest, k + 1, Len(forest)))>> :
        k \in 0..Len(forest) }

\* hierarchies over the SpecObject o1 and the missing SpecObject zz
HierarchyBundles ==
    { MakeBundle(<<>>, objects, specs, rels) :
        objects \in {<<>>, <<SpecObjectOf("o1", <<>>)>>},
        rels \in {<<>>, <<RelationOf("o1", "o1", NoRef), RelationOf("o1", "zz", NoRef)>>},
        specs \in UNION { Specifications(Relabel(f, 1).nodes) : f \in ForestsUpTo(MaxNodes, {"o1", "zz"}) } }

\* relations over the SpecObjects o1, o2 and the SpecType t; zz and u are missing
Relations == { RelationOf("o1", "o1", NoRef), RelationOf("o1", "o2", NoRef),
               RelationOf("o2", "o1", <<"t">>), RelationOf("o1", "o2", <<"t">>),
               RelationOf("o1", "zz", NoRef), RelationOf("zz", "o1", <<"t">>),
               RelationOf("o1", "o2", <<"u">>), RelationOf("o2", "o1", <<"u">>) }

\* an index that does not mirror the relations (left behind by whoever edited
\* the relations without rebuilding it)
StaleLookup == ("zz" :> <<"o1">>) @@ ("o1" :> <<"zz", "o2">>)

RelationBundles ==
    { [MakeBundle(types, <<SpecObjectOf("o1", <<>>), SpecObjectOf("o2", <<>>)>>, <<>>, rels)
          EXCEPT !.lookup = IF stale THEN StaleLookup ELSE @] :
        types \in {<<>>, <<SpecTypeOf(<<"t">>, <<"T">>, <<>>)>>},
        rels \in SeqsUpTo(Relations, MaxRels),
        stale \in BOOLEAN }

\* two SpecTypes; definitions of the first may lack a display name (LONG-NAME
\* is optional in the exchange format), the second has a duplicate to rename
UnnamedFieldBundles ==
    { MakeBundle(<<SpecTypeOf(<<"t">>, <<"T">>, defs),
                   SpecTypeOf(<<"b">>, <<"B">>, <<[long_name |-> <<"b">>, attribute_type |-> "STRING"],
                                                  [long_name |-> <<"b">>, attribute_type |-> "STRING"]>>)>>,
                 <<>>, <<>>, <<>>) :
        defs \in SeqsUpTo([long_name : {<<"a">>, <<"A">>, None}, attribute_type : {"STRING"}], MaxDefs) }

MaxAttrs == 2     \* attributes per SpecObject

\* An AttributeDefinition of some kind and the Attribute a SpecObject holds for
\* it: [def_kind, attr_kind, value].  The parser takes the kind of a definition
\* from the definition's element and the kind of an attribute from the value's
\* element, and does not compare them: the last slot is a DATE value stored for
\* a definition declared STRING.
Slots ==
    { [def_kind |-> "STRING",  attr_kind |-> "STRING",  value |-> StrValue(<<"a">>)],
      [def_kind |-> "STRING",  attr_kind |-> "STRING",  value |-> NoneValue],
      [def_kind |-> "BOOLEAN", attr_kind |-> "BOOLEAN", value |-> BoolValue(TRUE)],
      [def_kind |-> "BOOLEAN", attr_kind |-> "BOOLEAN", value |-> BoolValue(FALSE)],
      [def_kind |-> "BOOLEAN", attr_kind |-> "BOOLEAN", value |-> NoneValue],
      [def_kind |-> "INTEGER", attr_kind |-> "INTEGER", value |-> IntValue(12)],
      [def_kind |-> "REAL",    attr_kind |-> "REAL",    value |-> StrValue(<<"1", ".", "5">>)],
      [def_kind |-> "ENUMERATION", attr_kind |-> "ENUMERATION", value |-> StrValue(<<"b">>)],
      [def_kind |-> "STRING",  attr_kind |-> "DATE",    value |-> StrValue(<<"2">>)] }

\* one SpecType and one SpecObject of it: the i-th attribute of the SpecObject
\* is the one stored for the i-th definition of the SpecType and refers to it
\* by the definition's identifier (no pass reads either)
AttributeBundles ==
    { MakeBundle(<<SpecTypeOf(<<"t">>, <<"T">>,
                      [i \in DOMAIN slots |-> [identifier |-> "d" \o ToString(i), long_name |-> <<"a">> \o Str(i),
                                               attribute_type |-> slots[i].def_kind]])>>,
                 <<SpecObjectOf("o1",
                      [i \in DOMAIN slots |-> [definition_ref |-> "d" \o ToString(i),
                                               attribute_type |-> slots[i].attr_kind, value |-> slots[i].value]])>>,
                 <<>>, <<>>) :
        slots \in SeqsUpTo(Slots, MaxAttrs) }

\* the values the empty-value pass tells apart: a text, the empty and a blank
\* text, no value, and the non-text values false and 0
EmptyCandidates ==
    { StrValue(<<"a">>), StrValue(<<>>), StrValue(<<" ">>), NoneValue, BoolValue(FALSE), IntValue(0) }

AttributesOf(values) ==
    [i \in DOMAIN values |-> [definition_ref |-> "d" \o ToString(i), attribute_type |-> "STRING",
                              value |-> values[i]]]

\* three SpecObjects; the one in the middle has nothing to lose
EmptyValueBundles ==
    { MakeBundle(<<>>, <<SpecObjectOf("o1", AttributesOf(first)),
                         SpecObjectOf("o2", AttributesOf(<<StrValue(<<"a">>)>>)),
                         SpecObjectOf("o3", AttributesOf(last))>>, <<>>, <<>>) :
        first \in SeqsUpTo(EmptyCandidates, MaxAttrs),
        last \in SeqsUpTo({StrValue(<<" ">>), BoolValue(FALSE)}, MaxAttrs) }

PassBundles ==
    {NoContentBundle} \cup NameBundles \cup HierarchyBundles \cup RelationBundles
        \cup UnnamedFieldBundles \cup AttributeBundles \cup EmptyValueBundles

(***************************************************************************)
(* The pass specification: a Bundle from the parser, and the five repair   *)
(* passes called on it one after the other, in any order.                  *)
(***************************************************************************)
OrchIdle ==
    /\ pc = "idle" /\ result = <<>> /\ workarounds = <<>>
    /\ ret = <<>> /\ trace = <<>>

ArchIdle ==
    /\ archive = <<>> /\ archive0 = <<>> /\ apc = "idle" /\ idx = 0 /\ jdx = 0
    /\ acc = <<>> /\ all_results = <<>> /\ aret = <<>> /\ hist = <<>>

PassInit ==
    /\ bundle \in PassBundles
    /\ bundle0 = bundle
    /\ lastPass = "none"
    /\ lastReturn = <<>>
    /\ OrchIdle
    /\ ArchIdle
    /\ PureIdle

RunPass(name, r) ==
    /\ bundle' = r.bundle
    /\ lastPass' = name
    /\ lastReturn' = r.ret
    /\ UNCHANGED <<bundle0, orchVars, archVars, pureVars>>

RunUnsupportedAttributeTypes == RunPass("types", FixUnsupportedAttributeTypes(bundle))
RunMissingSpecTypeNames == RunPass("names", FixMissingSpecTypeNames(bundle))
RunDuplicateFieldNames == RunPass("dups", FixDuplicateFieldNames(bundle))
RunEmptyAttributeValues == RunPass("empty", FixEmptyAttributeValues(bundle))
RunMissingSpecObjectRefs == RunPass("refs", FixMissingSpecObjectRefs(bundle))

PassNext ==
    \/ RunUnsupportedAttributeTypes
    \/ RunMissingSpecTypeNames
    \/ RunDuplicateFieldNames
    \/ RunEmptyAttributeValues
    \/ RunMissingSpecObjectRefs

PassSpec == PassInit /\ [][PassNext]_vars

(***************************************************************************)
(* Claims about the passes, checked under PassSpec.                        *)
(***************************************************************************)
SpecObjectIds(b) == {b.spec_objects[i].identifier : i \in DOMAIN b.spec_objects}
SpecTypeIds(b) == {b.spec_types[i].identifier : i \in DOMAIN b.spec_types}

RECURSIVE AllNodesResolve(_, _)
\* every node of the forest, at every depth, references a member of ids
AllNodesResolve(nodes, ids) ==
    \A i \in DOMAIN nodes :
        /\ nodes[i].spec_object \in ids
        /\ AllNodesResolve(nodes[i].children, ids)

RECURSIVE Depth(_)
Depth(nodes) ==
    IF nodes = <<>> THEN 0
    ELSE LET d == 1 + Depth(Head(nodes).children)
             e == Depth(Tail(nodes))
         IN  IF d > e THEN d ELSE e

\* C8 (pruning closure): right after fix_missing_spec_object_refs, every
\* surviving HierarchyNode at every depth of every Specification references an
\* existing SpecObject, and every surviving SpecRelation has a source and a
\* target that are existing SpecObjects and, if it names a relation type, one
\* that is an existing SpecType.
C8_PruningClosure ==
    lastPass = "refs" =>
        /\ \A i \in DOMAIN bundle.specifications :
               AllNodesResolve(bundle.specifications[i].children, SpecObjectIds(bundle))
        /\ \A i \in DOMAIN bundle.spec_relations :
               LET rel == bundle.spec_relations[i]
               IN  /\ rel.source \in SpecObjectIds(bundle)
                   /\ rel.target \in SpecObjectIds(bundle)
                   /\ rel.relation_type_ref # NoRef => rel.relation_type_ref \in SpecTypeIds(bundle)

\* the pass has just removed nodes below the roots and relations, and nodes two
\* levels deep and a relation survive
C8_Witness ==
    /\ lastPass = "refs"
    /\ \E i \in DOMAIN lastReturn : lastReturn[i].what = "hierarchy"
    /\ \E i \in DOMAIN lastReturn : lastReturn[i].what = "relations"
    /\ \E i \in DOMAIN bundle.specifications :
           /\ Depth(bundle.specifications[i].children) >= 2
           /\ Size(bundle.specifications[i].children) < Size(bundle0.specifications[i].children)
    /\ bundle.spec_relations # <<>>

\* the targets of the relations of rels whose source is src, in relation order
TargetsOf(rels, src) ==
    LET from == SelectSeq(rels, LAMBDA rel : rel.source = src)
    IN  [i \in DOMAIN from |-> from[i].target]

\* C9: right after fix_missing_spec_object_refs on a Bundle that has content,
\* the reverse index has an entry for a source iff some surviving relation has
\* that source, and the entry lists exactly the targets of those relations, in
\* relation order.
C9_IndexMirrorsRelations ==
    lastPass = "refs" =>
        /\ DOMAIN bundle.lookup = {bundle.spec_relations[i].source : i \in DOMAIN bundle.spec_relations}
        /\ \A src \in DOMAIN bundle.lookup :
               bundle.lookup[src] = TargetsOf(bundle.spec_relations, src)

\* the index was stale before the pass, the pass removed a relation and kept
\* another one
C9_Witness ==
    /\ lastPass = "refs"
    /\ bundle0.lookup = StaleLookup
    /\ \E i \in DOMAIN lastReturn : lastReturn[i].what = "relations"
    /\ bundle.spec_relations # <<>>

\* C10 (duplicate-rename uniqueness): right after fix_duplicate_field_names, no
\* two AttributeDefinitions of one SpecType have the same normalized key.
C10_UniqueKeysAfterRename ==
    lastPass = "dups" =>
        \A t \in DOMAIN bundle.spec_types :
            LET defs == bundle.spec_types[t].attribute_definitions
            IN  \A i, j \in DOMAIN defs :
                    i # j => SafeName(defs[i].long_name) # SafeName(defs[j].long_name)

\* C11 (exception tolerance, for fix_duplicate_field_names): a run of the pass
\* in which an exception is raised and swallowed leaves the Bundle exactly as
\* it was before the pass started.
C11_FailedPassIsNoOp ==
    [][(RunDuplicateFieldNames /\ FixDuplicateFieldNames(bundle).raised) => bundle' = bundle]_vars

\* C12: whichever of the five passes runs, on whatever Bundle, the list it
\* returns is empty exactly when the run left the Bundle as it was.
C12_EmptyListIffUnchanged ==
    [][PassNext => ((lastReturn' = <<>>) <=> (bundle' = bundle))]_vars

\* the definitions of a Bundle that have identifiers, over all its SpecTypes
DefinitionsOf(b) ==
    UNION { {d \in Range(b.spec_types[t].attribute_definitions) : "identifier" \in DOMAIN d} :
              t \in DOMAIN b.spec_types }

\* the attribute is stored for a definition of an unsupported kind
DefinitionUnsupported(b, attr) ==
    /\ "definition_ref" \in DOMAIN attr
    /\ \E d \in DefinitionsOf(b) :
          d.identifier = attr.definition_ref /\ d.attribute_type \in UnsupportedTypes

\* the text form of a stored value
TextOf(v) ==
    CASE v.kind = "bool" -> IF v.flag THEN <<"t", "r", "u", "e">> ELSE <<"f", "a", "l", "s", "e">>
      [] v.kind = "int"  -> Str(v.num)
      [] OTHER           -> v.text

\* what fix_unsupported_attribute_types made of the Bundle before: no
\* definition of an unsupported kind is left and the others are as they were;
\* an attribute stored for a definition of an unsupported kind holds the text
\* form of its value (if absent_stays, a value that is absent stays absent);
\* an attribute of another kind is as it was
TypesCoerced(before, after, absent_stays) ==
    /\ DOMAIN after.spec_types = DOMAIN before.spec_types
    /\ \A t \in DOMAIN before.spec_types :
          LET old == before.spec_types[t].attribute_definitions
              new == after.spec_types[t].attribute_definitions
          IN  /\ DOMAIN new = DOMAIN old
              /\ \A d \in DOMAIN old :
                    /\ new[d].attribute_type \notin UnsupportedTypes
                    /\ old[d].attribute_type \notin UnsupportedTypes => new[d] = old[d]
    /\ DOMAIN after.spec_objects = DOMAIN before.spec_objects
    /\ \A o \in DOMAIN before.spec_objects :
          LET old == before.spec_objects[o].attributes
              new == after.spec_objects[o].attributes
          IN  /\ DOMAIN new = DOMAIN old
              /\ \A i \in DOMAIN old :
                    /\ DefinitionUnsupported(before, old[i]) =>
                          IF absent_stays /\ old[i].value.kind = "none"
                          THEN new[i].value = old[i].value
                          ELSE new[i].value = StrValue(TextOf(old[i].value))
                    /\ old[i].attribute_type \notin UnsupportedTypes => new[i] = old[i]

DefOf(name, type) == [long_name |-> name, attribute_type |-> type]
AttributeOf(type, value) == [attribute_type |-> type, value |-> value]
NodeOf(id, object, children) == [identifier |-> id, spec_object |-> object, children |-> children]

\* a Bundle no pass has anything to repair in
CleanBundle ==
    MakeBundle(<<SpecTypeOf(<<"t">>, <<"T">>, <<DefOf(<<"a">>, "STRING"), DefOf(<<"b">>, "ENUMERATION")>>)>>,
               <<SpecObjectOf("o1", <<AttributeOf("STRING", StrValue(<<"a">>))>>)>>,
               <<SpecificationOf("s1", <<NodeOf("n1", "o1", <<NodeOf("n2", "o1", <<>>)>>)>>)>>,
               <<RelationOf("o1", "o1", <<"t">>)>>)

\* one Bundle per pass, with work for that pass alone
UnsupportedTypeBundle ==
    [CleanBundle EXCEPT
        !.spec_types[1].attribute_definitions = <<DefOf(<<"a">>, "BOOLEAN"), DefOf(<<"b">>, "STRING")>>,
        !.spec_objects[1].attributes = <<AttributeOf("BOOLEAN", BoolValue(TRUE))>>]
MissingTypeNameBundle == [CleanBundle EXCEPT !.spec_types[1].long_name = None]
DuplicateFieldBundle ==
    [CleanBundle EXCEPT
        !.spec_types[1].attribute_definitions = <<DefOf(<<"a">>, "STRING"), DefOf(<<"A">>, "STRING")>>]
EmptyValueBundle ==
    [CleanBundle EXCEPT
        !.spec_objects[1].attributes = <<AttributeOf("STRING", StrValue(<<" ">>)), AttributeOf("STRING", StrValue(<<"a">>))>>]
MissingRefBundle ==
    MakeBundle(CleanBundle.spec_types, CleanBundle.spec_objects,
               <<SpecificationOf("s1", <<NodeOf("n1", "o1", <<NodeOf("n2", "zz", <<>>)>>)>>)>>,
               <<RelationOf("o1", "o1", <<"t">>), RelationOf("o1", "zz", NoRef)>>)

\* work for all five passes
BrokenBundle ==
    MakeBundle(<<SpecTypeOf(<<"t">>, <<>>, <<DefOf(<<"a">>, "REAL"), DefOf(<<"a">>, "STRING")>>)>>,
               <<SpecObjectOf("o1", <<AttributeOf("INTEGER", IntValue(12)), AttributeOf("STRING", NoneValue)>>)>>,
               MissingRefBundle.specifications, MissingRefBundle.spec_relations)

\* an attribute of an unsupported kind under a definition of a supported one,
\* and the same without any SpecType
MismatchedAttributeBundle ==
    [CleanBundle EXCEPT !.spec_objects[1].attributes = <<AttributeOf("DATE", StrValue(<<"2">>))>>]
NoSpecTypeBundle ==
    MakeBundle(<<>>, <<SpecObjectOf("o1", <<AttributeOf("BOOLEAN", BoolValue(FALSE))>>)>>, <<>>, <<>>)

OrchBundles ==
    { NoContentBundle, CleanBundle, UnsupportedTypeBundle, MissingTypeNameBundle,
      DuplicateFieldBundle, EmptyValueBundle, MissingRefBundle, BrokenBundle,
      MismatchedAttributeBundle, NoSpecTypeBundle,
      [CleanBundle EXCEPT !.lookup = StaleLookup] }

DocumentOf(title, grammar, contents) == [title |-> title, grammar |-> grammar, section_contents |-> contents]

SDocNodeOf(type, fields, composite, contents) ==
    [sdoc_node |-> TRUE, node_type |-> type, fields |-> fields, custom_level |-> None,
     is_composite |-> composite, section_contents |-> contents]

RequirementGrammar == ("REQUIREMENT" :> {"UID", "TITLE", "STATEMENT"})

\* a document of one requirement, and one of a requirement with a child
DocumentA ==
    DocumentOf("A", RequirementGrammar,
        <<SDocNodeOf("REQUIREMENT", ("UID" :> <<"a">>) @@ ("TITLE" :> <<"A">>), FALSE, <<>>)>>)
DocumentB ==
    DocumentOf("B", RequirementGrammar,
        <<SDocNodeOf("REQUIREMENT", ("UID" :> <<"b">>) @@ ("STATEMENT" :> <<"<", "b", ">", "B">>), TRUE,
            <<SDocNodeOf("REQUIREMENT", ("UID" :> <<"t">>), FALSE, <<>>)>>)>>)

Outcome(kind, docs, err) == [kind |-> kind, docs |-> docs, err |-> err]

\* a short message and one str(e)[:500] cuts
ShortError == [tag |-> "rejected: unsupported construct", len |-> 31]
LongError == [tag |-> "rejected: long report", len |-> 600]

ConvOutcomes ==
    { Outcome("ok", <<DocumentA>>, NoError),
      Outcome("ok", <<DocumentA, DocumentB>>, NoError),
      Outcome("empty", <<>>, NoError),
      Outcome("raise", <<>>, ShortError),
      Outcome("raise", <<>>, LongError) }

PassIdle == lastPass = "none" /\ lastReturn = <<>>

NoResult == ConversionResult(FALSE, NoData, NoError, <<>>)

Init ==
    /\ bundle \in OrchBundles
    /\ bundle0 = bundle
    /\ pc = "direct"
    /\ result = NoResult
    /\ workarounds = <<>>
    /\ ret = NoResult
    /\ trace = <<>>
    /\ PassIdle
    /\ ArchIdle
    /\ PureIdle

Converted(r) == [ev |-> "convert", result |-> r]
Repaired(changed) == [ev |-> "repair", changed |-> changed]

\* a first attempt that repairs the Bundle before it converts it
DirectAttemptRepairingFirst ==
    /\ pc = "direct"
    /\ \E outcome \in ConvOutcomes :
         LET w == ApplyWorkarounds(bundle)
             r == ConvertBundleToJson(w.bundle, outcome, w.ret)
         IN  /\ bundle' = w.bundle
             /\ result' = r
             /\ trace' = Append(trace, Converted(r))
             /\ IF r.success THEN pc' = "done" /\ ret' = r
                             ELSE pc' = "repair" /\ UNCHANGED ret
    /\ UNCHANGED <<bundle0, workarounds, passVars, archVars, pureVars>>

\* main.py 384-386: the first attempt, on the Bundle as it is
DirectAttempt ==
    /\ pc = "direct"
    /\ \E outcome \in ConvOutcomes :
         LET r == ConvertBundleToJson(bundle, outcome, <<>>)
         IN  /\ result' = r
             /\ trace' = Append(trace, Converted(r))
             /\ IF r.success THEN pc' = "done" /\ ret' = r
                             ELSE pc' = "repair" /\ UNCHANGED ret
    /\ UNCHANGED <<bundle, bundle0, workarounds, passVars, archVars, pureVars>>

\* a repair step that goes on to the second attempt whatever the passes returned
RepairAlwaysRetrying ==
    /\ pc = "repair"
    /\ LET w == ApplyWorkarounds(bundle)
       IN  /\ bundle' = w.bundle
           /\ workarounds' = w.ret
           /\ trace' = Append(trace, Repaired(w.bundle # bundle))
           /\ pc' = "retry"
    /\ UNCHANGED <<bundle0, result, ret, passVars, archVars, pureVars>>

\* main.py 389-391: the five passes, and the test whether any of them reported a change
Repair ==
    /\ pc = "repair"
    /\ LET w == ApplyWorkarounds(bundle)
       IN  /\ bundle' = w.bundle
           /\ workarounds' = w.ret
           /\ trace' = Append(trace, Repaired(w.bundle # bundle))
           /\ pc' = IF w.ret # <<>> THEN "retry" ELSE "failed"
    /\ UNCHANGED <<bundle0, result, ret, passVars, archVars, pureVars>>

\* a second attempt that, on failure, goes back to repairing
RetryAttemptLooping ==
    /\ pc = "retry"
    /\ \E outcome \in ConvOutcomes :
         LET r == ConvertBundleToJson(bundle, outcome, workarounds)
         IN  /\ result' = r
             /\ trace' = Append(trace, Converted(r))
             /\ IF r.success THEN pc' = "done" /\ ret' = r
                             ELSE pc' = "repair" /\ UNCHANGED ret
    /\ UNCHANGED <<bundle, bundle0, workarounds, passVars, archVars, pureVars>>

\* main.py 392-394: the second attempt, on the repaired Bundle
RetryAttempt ==
    /\ pc = "retry"
    /\ \E outcome \in ConvOutcomes :
         LET r == ConvertBundleToJson(bundle, outcome, workarounds)
         IN  /\ result' = r
             /\ trace' = Append(trace, Converted(r))
             /\ IF r.success THEN pc' = "done" /\ ret' = r
                             ELSE pc' = "failed" /\ UNCHANGED ret
    /\ UNCHANGED <<bundle, bundle0, workarounds, passVars, archVars, pureVars>>

\* main.py 396-401
ReturnFailed ==
    /\ pc = "failed"
    /\ ret' = FailedResult(result, workarounds)
    /\ pc' = "done"
    /\ UNCHANGED <<bundle, bundle0, result, workarounds, trace, passVars, archVars, pureVars>>

Next ==
    \/ DirectAttempt
    \/ Repair
    \/ RetryAttempt
    \/ ReturnFailed

Spec == Init /\ [][Next]_vars

(***************************************************************************)
(* Claims about the orchestrator, checked under Spec.                      *)
(***************************************************************************)
\* C1: convert_reqif_to_json performs at most one repair-and-retry cycle.  The
\* calls it makes are, in this order, a conversion, then (only if that one
\* failed) one run of the five passes, then (only after that) a second
\* conversion: never a third conversion, never a second run of the passes.
\* After the second conversion, whatever it returned, the orchestrator is at
\* one of its two return statements or has returned.
C1_AtMostOneRepairAndRetry ==
    /\ Len(trace) <= 3
    /\ Len(trace) >= 1 => trace[1].ev = "convert"
    /\ Len(trace) >= 2 => ~trace[1].result.success /\ trace[2].ev = "repair"
    /\ Len(trace) = 3 => trace[3].ev = "convert" /\ pc \in {"failed", "done"}
    /\ pc = "direct" <=> trace = <<>>
    /\ pc = "repair" => Len(trace) = 1
    /\ pc = "retry" => Len(trace) = 2
    /\ pc \in {"direct", "repair", "retry", "failed", "done"}

\* both conversions failed, the passes ran in between, and the orchestrator has returned
C1_Witness ==
    /\ pc = "done"
    /\ Len(trace) = 3
    /\ ~trace[1].result.success
    /\ trace[2].ev = "repair"
    /\ ~trace[3].result.success
    /\ ~ret.success

\* C2: when the first conversion succeeds, convert_reqif_to_json returns a
\* successful result with an empty workarounds list (and no
\* _WORKAROUNDS_APPLIED in its data), no repair pass has run, and the Bundle is
\* as it was before the call.
C2_DirectSuccessLeavesBundleAlone ==
    (Len(trace) >= 1 /\ trace[1].result.success) =>
        /\ pc = "done"
        /\ Len(trace) = 1
        /\ ret.success
        /\ ret.workarounds_applied = <<>>
        /\ ret.data.present /\ ret.data.WORKAROUNDS_APPLIED = <<>>
        /\ bundle = bundle0

\* the first conversion succeeded on a Bundle the passes would have changed
C2_Witness ==
    /\ pc = "done"
    /\ Len(trace) = 1
    /\ trace[1].result.success
    /\ ret.success
    /\ bundle = BrokenBundle

\* C3: when the first conversion fails and the passes leave the Bundle as it
\* was, there is no second conversion, and the result returned is a failure
\* that carries the error of the first conversion and an empty workarounds list.
C3_NoChangeNoRetry ==
    (Len(trace) >= 2 /\ ~trace[2].changed) =>
        /\ Len(trace) = 2
        /\ pc \in {"failed", "done"}
        /\ pc = "done" =>
              /\ ~ret.success
              /\ ret.error = trace[1].result.error
              /\ ret.workarounds_applied = <<>>
              /\ ~ret.data.present

\* the first conversion raised, the passes changed nothing, the failure has been returned
C3_Witness ==
    /\ pc = "done"
    /\ Len(trace) = 2
    /\ ~trace[2].changed
    /\ bundle = CleanBundle
    /\ ~ret.success
    /\ ret.error = Truncate(LongError, ErrorLimit)

(***************************************************************************)
(* convert_reqif_to_json as one operator, for the callers that call it.    *)
(* conv is the behaviour of the external step on its first and its second  *)
(* call; the value is [bundle |-> the Bundle afterwards, ret |-> the       *)
(* ConversionResult].                                                      *)
(***************************************************************************)
\* main.py 390-401: what follows a failed direct attempt, w the repair's outcome
RetryAfterRepair(first, w, second) ==
    IF w.ret # <<>>
    THEN [bundle |-> w.bundle,
          ret |-> IF second.success THEN second ELSE FailedResult(second, w.ret)]
    ELSE [bundle |-> w.bundle, ret |-> FailedResult(first, w.ret)]

\* main.py 390-395: the repair and the second attempt
RepairAndRetry(first, w, conv) ==
    RetryAfterRepair(first, w, ConvertBundleToJson(w.bundle, conv[2], w.ret))

\* main.py 385-388: the direct attempt
ConvertAfterDirect(b, first, conv) ==
    IF first.success THEN [bundle |-> b, ret |-> first]
    ELSE RepairAndRetry(first, ApplyWorkarounds(b), conv)

ConvertReqifToJson(b, conv) ==
    ConvertAfterDirect(b, ConvertBundleToJson(b, conv[1], <<>>), conv)

(***************************************************************************)
(* Archives.  A member is [name, bundle, conv]; an attachment is [name,    *)
(* data], its name a text and its data "" when the entry has no bytes.     *)
(***************************************************************************)
MaxMembers == 3
MaxAttachments == 2

\* direct success; success after repair; failure after repair; no document
MemberProfiles ==
    { [bundle |-> CleanBundle,  conv |-> <<Outcome("ok", <<DocumentA, DocumentB>>, NoError), Outcome("empty", <<>>, NoError)>>],
      [bundle |-> BrokenBundle, conv |-> <<Outcome("raise", <<>>, ShortError), Outcome("ok", <<DocumentA>>, NoError)>>],
      [bundle |-> BrokenBundle, conv |-> <<Outcome("raise", <<>>, ShortError), Outcome("raise", <<>>, LongError)>>],
      [bundle |-> CleanBundle,  conv |-> <<Outcome("empty", <<>>, NoError), Outcome("empty", <<>>, NoError)>>] }

\* a file, an entry without bytes, a directory marker
AttachmentKinds == {"f", "e", "d"}

AttachmentOf(kind, i) ==
    [name |-> IF kind = "d" THEN <<kind, Digit[i], "/">> ELSE <<kind, Digit[i]>>,
     data |-> IF kind = "e" THEN "" ELSE "bytes"]

\* reqif_bundles and attachments are dictionaries: the names are distinct
Archives ==
    { [reqif_bundles |-> [i \in DOMAIN ps |->
                             [name |-> "m" \o ToString(i) \o ".reqif",
                              bundle |-> ps[i].bundle, conv |-> ps[i].conv]],
       attachments |-> [i \in DOMAIN ks |-> AttachmentOf(ks[i], i)]] :
        ps \in SeqsUpTo(MemberProfiles, MaxMembers),
        ks \in SeqsUpTo(AttachmentKinds, MaxAttachments) }

\* main.py 462: the entry is not written
Skipped(attachment) ==
    attachment.data = "" \/ attachment.name[Len(attachment.name)] = "/"

\* str(attachment_path.relative_to(output_dir))
ExtractedPath(attachment) == [dir |-> "attachments", name |-> attachment.name]

NoHistory == [parsed |-> FALSE, processed |-> <<>>, written |-> {}, write_failed |-> {}, member_raised |-> {}]

\* what ZIP reading, XML parsing and file writing raise
ArchiveErrors == {ShortError, LongError}

(***************************************************************************)
(* main.py: process_reqifz_file.                                           *)
(***************************************************************************)
NoArchiveData ==
    [present |-> FALSE, DOCUMENTS |-> <<>>, ATTACHMENTS |-> <<>>,
     WORKAROUNDS_APPLIED |-> <<>>, PARTIAL_ERRORS |-> <<>>]

\* f"Archive error: {str(e)[:300]}"
ArchiveError(err) ==
    [tag |-> "Archive error: " \o err.tag, len |-> 15 + Min(err.len, ParseErrorLimit)]

\* "; ".join(errors)
JoinedErrors(errors) == [joined |-> errors]

NoDocumentsFound == [tag |-> "No documents found", len |-> 18]

\* f"[{bundle_name}] {x}"
Tagged(bundle_name, x) == [member |-> bundle_name, text |-> x]

\* main.py 450-452
TagDocuments(docs, bundle_name) == [i \in DOMAIN docs |-> [docs[i] EXCEPT !.SOURCE_FILE = bundle_name]]

\* where the function goes on after the loop over the members
AfterMembers(z) == IF z.attachments # <<>> THEN "attachments" ELSE "build"

\* the archive as parsed, with what convert_reqif_to_json returns for each of its members
Snapshot(z) ==
    [reqif_bundles |-> z.reqif_bundles, attachments |-> z.attachments,
     results |-> [i \in DOMAIN z.reqif_bundles |->
                     ConvertReqifToJson(z.reqif_bundles[i].bundle, z.reqif_bundles[i].conv).ret]]

ArchiveInit ==
    /\ archive \in Archives
    /\ archive0 = Snapshot(archive)
    /\ apc = "parse"
    /\ idx = 1 /\ jdx = 1
    /\ acc = [all_documents |-> <<>>, all_workarounds |-> <<>>,
              extracted_attachments |-> <<>>, errors |-> <<>>]
    /\ all_results = <<>>
    /\ aret = <<>>
    /\ hist = NoHistory
    /\ bundle = <<>> /\ bundle0 = <<>>
    /\ PassIdle /\ OrchIdle /\ PureIdle

archIdleVars == <<bundle, bundle0, passVars, orchVars, all_results, pureVars>>

\* main.py 434: ReqIFZParser.parse returns the archive
ParseArchive ==
    /\ apc = "parse"
    /\ apc' = IF archive.reqif_bundles # <<>> THEN "members" ELSE AfterMembers(archive)
    /\ hist' = [hist EXCEPT !.parsed = TRUE]
    /\ UNCHANGED <<archive, archive0, idx, jdx, acc, aret, archIdleVars>>

\* main.py 434, 498-502: ReqIFZParser.parse raises
ParseArchiveFails ==
    /\ apc = "parse"
    /\ \E e \in ArchiveErrors :
         aret' = ConversionResult(FALSE, NoArchiveData, ArchiveError(e), <<>>)
    /\ apc' = "done"
    /\ UNCHANGED <<archive, archive0, idx, jdx, acc, hist, archIdleVars>>

\* a loop body that gives up on the archive's remaining members when one fails
ProcessMemberStoppingAtFailure ==
    /\ apc = "members"
    /\ \E member \in {archive.reqif_bundles[idx]} :
        \E r \in {ConvertReqifToJson(member.bundle, member.conv)} :
           /\ archive' = [archive EXCEPT !.reqif_bundles[idx].bundle = r.bundle]
           /\ acc' = [acc EXCEPT
                 !.all_workarounds = @ \o [i \in DOMAIN r.ret.workarounds_applied |->
                                              Tagged(member.name, r.ret.workarounds_applied[i])],
                 !.all_documents = IF r.ret.success /\ r.ret.data.present
                                   THEN @ \o TagDocuments(r.ret.data.DOCUMENTS, member.name) ELSE @,
                 !.errors = IF r.ret.success /\ r.ret.data.present
                            THEN @ ELSE Append(@, Tagged(member.name, r.ret.error))]
           /\ hist' = [hist EXCEPT !.processed = Append(@, member.name)]
           /\ idx' = idx + 1
           /\ apc' = IF idx = Len(archive.reqif_bundles) \/ ~r.ret.success
                     THEN AfterMembers(archive) ELSE "members"
    /\ UNCHANGED <<archive0, jdx, aret, archIdleVars>>

\* main.py 441-454: the loop body, for the member at idx
ProcessMember ==
    /\ apc = "members"
    /\ \E member \in {archive.reqif_bundles[idx]} :
        \E r \in {ConvertReqifToJson(member.bundle, member.conv)} :
           /\ archive' = [archive EXCEPT !.reqif_bundles[idx].bundle = r.bundle]
           /\ acc' = [acc EXCEPT
                 !.all_workarounds = @ \o [i \in DOMAIN r.ret.workarounds_applied |->
                                              Tagged(member.name, r.ret.workarounds_applied[i])],
                 !.all_documents = IF r.ret.success /\ r.ret.data.present
                                   THEN @ \o TagDocuments(r.ret.data.DOCUMENTS, member.name) ELSE @,
                 !.errors = IF r.ret.success /\ r.ret.data.present
                            THEN @ ELSE Append(@, Tagged(member.name, r.ret.error))]
           /\ hist' = [hist EXCEPT !.processed = Append(@, member.name)]
           /\ idx' = idx + 1
           /\ apc' = IF idx = Len(archive.reqif_bundles) THEN AfterMembers(archive) ELSE "members"
    /\ UNCHANGED <<archive0, jdx, aret, archIdleVars>>

\* main.py 461-473: the loop body for the entry at jdx, the file system accepting the write
ExtractAttachment ==
    /\ apc = "attachments"
    /\ LET attachment == archive.attachments[jdx]
       IN  IF Skipped(attachment)
           THEN UNCHANGED <<acc, hist>>
           ELSE /\ acc' = [acc EXCEPT !.extracted_attachments = Append(@, ExtractedPath(attachment))]
                /\ hist' = [hist EXCEPT !.written = @ \cup {attachment.name}]
    /\ jdx' = jdx + 1
    /\ apc' = IF jdx = Len(archive.attachments) THEN "build" ELSE "attachments"
    /\ UNCHANGED <<archive, archive0, idx, aret, archIdleVars>>

\* main.py 465-469, 498-502: creating the directory or writing the file raises
ExtractAttachmentFails ==
    /\ apc = "attachments"
    /\ ~Skipped(archive.attachments[jdx])
    /\ \E e \in ArchiveErrors :
         aret' = ConversionResult(FALSE, NoArchiveData, ArchiveError(e), <<>>)
    /\ hist' = [hist EXCEPT !.write_failed = @ \cup {archive.attachments[jdx].name}]
    /\ apc' = "done"
    /\ UNCHANGED <<archive, archive0, idx, jdx, acc, archIdleVars>>

\* main.py 475-496
BuildResult ==
    /\ apc = "build"
    /\ aret' = IF acc.all_documents # <<>>
               THEN ConversionResult(TRUE,
                        [present |-> TRUE, DOCUMENTS |-> acc.all_documents,
                         ATTACHMENTS |-> acc.extracted_attachments,
                         WORKAROUNDS_APPLIED |-> acc.all_workarounds,
                         PARTIAL_ERRORS |-> acc.errors],
                        NoError, acc.all_workarounds)
               ELSE ConversionResult(FALSE, NoArchiveData,
                        IF acc.errors # <<>> THEN JoinedErrors(acc.errors) ELSE NoDocumentsFound,
                        acc.all_workarounds)
    /\ apc' = "done"
    /\ UNCHANGED <<archive, archive0, idx, jdx, acc, hist, archIdleVars>>

ArchiveNext ==
    \/ ParseArchive
    \/ ParseArchiveFails
    \/ ProcessMember
    \/ ExtractAttachment
    \/ ExtractAttachmentFails
    \/ BuildResult

ArchiveSpec == ArchiveInit /\ [][ArchiveNext]_vars

(***************************************************************************)
(* Claims about main.process_reqifz_file, under ArchiveSpec.  archive0     *)
(* is the archive as parsed, with the result of each member's conversion.  *)
(***************************************************************************)
MemberCount == Len(archive0.reqif_bundles)

MemberResults == archive0.results

\* the outcome of the attempt that made member k succeed
ProducingOutcome(k) ==
    IF archive0.reqif_bundles[k].conv[1].kind = "ok"
    THEN archive0.reqif_bundles[k].conv[1] ELSE archive0.reqif_bundles[k].conv[2]

RECURSIVE DocumentsOfMembers(_, _)
\* the documents of the successful members among the first k, each under its member's name
DocumentsOfMembers(results, k) ==
    IF k = 0 THEN <<>>
    ELSE DocumentsOfMembers(results, k - 1) \o
         (IF results[k].success
          THEN [j \in DOMAIN ProducingOutcome(k).docs |->
                   [TITLE |-> ProducingOutcome(k).docs[j].title,
                    NODES |-> ProducingOutcome(k).docs[j].section_contents,
                    SOURCE_FILE |-> archive0.reqif_bundles[k].name]]
          ELSE <<>>)

RECURSIVE ErrorsOfMembers(_, _)
\* one entry "[<member>] <error>" for every failed member among the first k
ErrorsOfMembers(results, k) ==
    IF k = 0 THEN <<>>
    ELSE ErrorsOfMembers(results, k - 1) \o
         (IF results[k].success THEN <<>>
          ELSE <<Tagged(archive0.reqif_bundles[k].name, results[k].error)>>)

C6_SuccessIffSomeMemberProduced ==
    (apc = "done" /\ hist.parsed) =>
        LET results == MemberResults
        IN  /\ aret.success <=> (\E i \in 1..MemberCount : results[i].success)
            /\ ~aret.success => aret.error = JoinedErrors(ErrorsOfMembers(results, MemberCount))

\* C7: when writing one attachment fails, every other attachment that is a
\* file with bytes is still written and the documents of the successful
\* members are returned in a successful result.
C7_AttachmentFailureStaysLocal ==
    (apc = "done" /\ hist.write_failed # {}) =>
        LET results == MemberResults
        IN  /\ \A j \in DOMAIN archive0.attachments :
                  (~Skipped(archive0.attachments[j]) /\ archive0.attachments[j].name \notin hist.write_failed)
                     => archive0.attachments[j].name \in hist.written
            /\ (\E i \in 1..MemberCount : results[i].success) =>
                  /\ aret.success
                  /\ aret.data.DOCUMENTS = DocumentsOfMembers(results, MemberCount)

(***************************************************************************)
(* main_strictdoc.py: process_reqifz_file.  The converter is called once   *)
(* on every member, on the Bundle as parsed: conv[1] is what it does.      *)
(* all_results is [strictdoc_documents, requirements, links, attachments]; *)
(* aret is [none, results], none saying that None was returned.            *)
(***************************************************************************)
ReturnedNone == [none |-> TRUE, results |-> <<>>]

Returned(results) == [none |-> FALSE, results |-> results]

FlatInit ==
    /\ archive \in Archives
    /\ archive0 = Snapshot(archive)
    /\ apc = "parse"
    /\ idx = 1 /\ jdx = 1
    /\ acc = <<>>
    /\ all_results = <<>>
    /\ aret = <<>>
    /\ hist = NoHistory
    /\ bundle = <<>> /\ bundle0 = <<>>
    /\ PassIdle /\ OrchIdle /\ PureIdle

flatIdleVars == <<bundle, bundle0, passVars, orchVars, acc, archive, archive0, pureVars>>

\* main_strictdoc.py 278-289
FlatParseArchive ==
    /\ apc = "parse"
    /\ all_results' = [strictdoc_documents |-> <<>>, requirements |-> <<>>,
                       links |-> <<>>, attachments |-> <<>>]
    /\ apc' = IF archive.reqif_bundles # <<>> THEN "members" ELSE AfterMembers(archive)
    /\ hist' = [hist EXCEPT !.parsed = TRUE]
    /\ UNCHANGED <<idx, jdx, aret, flatIdleVars>>

\* main_strictdoc.py 278, 332-336: ReqIFZParser.parse raises
FlatParseArchiveFails ==
    /\ apc = "parse"
    /\ aret' = ReturnedNone
    /\ apc' = "done"
    /\ UNCHANGED <<idx, jdx, all_results, hist, flatIdleVars>>

\* main_strictdoc.py 301-310: what the documents of one member add to all_results
AddDocuments(results, documents, bundle_name) ==
    LET doc_dicts == [i \in DOMAIN documents |->
                         [SerializeDocument(documents[i]) EXCEPT !.SOURCE_FILE = bundle_name]]
        flat == [i \in DOMAIN documents |-> FlattenDocument(doc_dicts[i])]
    IN  [results EXCEPT
            !.strictdoc_documents = @ \o doc_dicts,
            !.requirements = @ \o Concat([i \in DOMAIN documents |->
                                 [r \in DOMAIN flat[i].requirements |->
                                     [flat[i].requirements[r] EXCEPT !.source_file = bundle_name]]]),
            !.links = @ \o Concat([i \in DOMAIN documents |-> flat[i].links])]

\* main_strictdoc.py 292-310: the loop body for the member at idx, the converter returning
FlatProcessMember ==
    /\ apc = "members"
    /\ archive.reqif_bundles[idx].conv[1].kind # "raise"
    /\ all_results' = AddDocuments(all_results, archive.reqif_bundles[idx].conv[1].docs,
                                   archive.reqif_bundles[idx].name)
    /\ hist' = [hist EXCEPT !.processed = Append(@, archive.reqif_bundles[idx].name)]
    /\ idx' = idx + 1
    /\ apc' = IF idx = Len(archive.reqif_bundles) THEN AfterMembers(archive) ELSE "members"
    /\ UNCHANGED <<jdx, aret, flatIdleVars>>

\* main_strictdoc.py 295-299, 332-336: the converter raises on the member at idx
FlatProcessMemberRaises ==
    /\ apc = "members"
    /\ archive.reqif_bundles[idx].conv[1].kind = "raise"
    /\ hist' = [hist EXCEPT !.processed = Append(@, archive.reqif_bundles[idx].name),
                            !.member_raised = @ \cup {idx}]
    /\ aret' = ReturnedNone
    /\ apc' = "done"
    /\ UNCHANGED <<idx, jdx, all_results, flatIdleVars>>

\* main_strictdoc.py 317-328: the loop body for the entry at jdx, the file system accepting the write
FlatExtractAttachment ==
    /\ apc = "attachments"
    /\ IF Skipped(archive.attachments[jdx])
       THEN UNCHANGED <<all_results, hist>>
       ELSE /\ all_results' = [all_results EXCEPT
                                 !.attachments = Append(@, ExtractedPath(archive.attachments[jdx]))]
            /\ hist' = [hist EXCEPT !.written = @ \cup {archive.attachments[jdx].name}]
    /\ jdx' = jdx + 1
    /\ apc' = IF jdx = Len(archive.attachments) THEN "build" ELSE "attachments"
    /\ UNCHANGED <<idx, aret, flatIdleVars>>

\* main_strictdoc.py 321-325, 332-336: creating the directory or writing the file raises
FlatExtractAttachmentFails ==
    /\ apc = "attachments"
    /\ ~Skipped(archive.attachments[jdx])
    /\ hist' = [hist EXCEPT !.write_failed = @ \cup {archive.attachments[jdx].name}]
    /\ aret' = ReturnedNone
    /\ apc' = "done"
    /\ UNCHANGED <<idx, jdx, all_results, flatIdleVars>>

\* main_strictdoc.py 330
FlatReturn ==
    /\ apc = "build"
    /\ aret' = Returned(all_results)
    /\ apc' = "done"
    /\ UNCHANGED <<idx, jdx, all_results, hist, flatIdleVars>>

FlatNext ==
    \/ FlatParseArchive
    \/ FlatParseArchiveFails
    \/ FlatProcessMember
    \/ FlatProcessMemberRaises
    \/ FlatExtractAttachment
    \/ FlatExtractAttachmentFails
    \/ FlatReturn

FlatSpec == FlatInit /\ [][FlatNext]_vars

\* the Requirements of member i, each under the member's name, and its Links
FlatOfMember(i) ==
    AddDocuments([strictdoc_documents |-> <<>>, requirements |-> <<>>, links |-> <<>>, attachments |-> <<>>],
                 archive0.reqif_bundles[i].conv[1].docs, archive0.reqif_bundles[i].name)

IsSubSeq(part, whole) ==
    \E k \in 0..(Len(whole) - Len(part)) : SubSeq(whole, k + 1, k + Len(part)) = part

\* C5: when the conversion of one member fails in
\* main_strictdoc.process_reqifz_file (the archive was read and no
\* attachment failed to be written), the Requirements and Links of every
\* other member are still returned, each Requirement under its member's name.
C5_MemberFailureStaysLocal ==
    (apc = "done" /\ hist.parsed /\ hist.write_failed = {}) =>
        \A i \in 1..MemberCount :
            archive0.reqif_bundles[i].conv[1].kind # "raise" =>
               /\ ~aret.none
               /\ IsSubSeq(FlatOfMember(i).requirements, aret.results.requirements)
               /\ IsSubSeq(FlatOfMember(i).links, aret.results.links)

(***************************************************************************)
(* main.py, preprocess_reqif_xml.  The regular expressions are computed    *)
(* character by character, leftmost match first, as re.search and re.sub   *)
(* do.  The byte-order mark U+FEFF is the one-character text <<"BOM">>.    *)
(***************************************************************************)
BOM == "BOM"

UpperCase == {"A", "B", "C", "D", "E", "F", "G", "H", "I", "J", "K", "L", "M",
              "N", "O", "P", "Q", "R", "S", "T", "U", "V", "W", "X", "Y", "Z"}

\* the characters \s matches among those the inputs use
RegexSpace == {" ", "\t", "\n", "\r", "\f"}

OpenReqif == <<"<", "r", "e", "q", "i", "f", ":">>
OpenR == <<"<", "r", ":">>
CloseReqif == <<"<", "/", "r", "e", "q", "i", "f", ":">>
CloseR == <<"<", "/", "r", ":">>
XmlDecl == <<"<", "?", "x", "m", "l">>
RootTag == <<"<", "R", "E", "Q", "-", "I", "F">>
XmlnsDefault == <<"x", "m", "l", "n", "s", "=", "\"">>
XmlnsEquals == <<"x", "m", "l", "n", "s", "=">>
XmlnsReqif == <<"x", "m", "l", "n", "s", ":", "r", "e", "q", "i", "f", "=">>
XmlnsR == <<"x", "m", "l", "n", "s", ":", "r", "=">>

\* s[i:].startswith(p)
StartsWithAt(s, i, p) ==
    /\ i + Len(p) - 1 <= Len(s)
    /\ SubSeq(s, i, i + Len(p) - 1) = p

\* the least index j >= i with s[j] = c, or 0
IndexFrom(s, i, c) ==
    IF \E j \in i..Len(s) : s[j] = c
    THEN CHOOSE j \in i..Len(s) : s[j] = c /\ \A k \in i..(j - 1) : s[k] # c
    ELSE 0

\* r"<\?xml[^?]*\?>" matches at i: the first "?" after "<?xml" is followed by ">"
DeclMatchesAt(s, i) ==
    /\ StartsWithAt(s, i, XmlDecl)
    /\ LET q == IndexFrom(s, i + Len(XmlDecl), "?")
       IN  q # 0 /\ q < Len(s) /\ s[q + 1] = ">"

\* xml_decl_match.start() + 1, or 0 when re.search finds nothing
DeclStart(s) ==
    IF \E i \in 1..Len(s) : DeclMatchesAt(s, i)
    THEN CHOOSE i \in 1..Len(s) : DeclMatchesAt(s, i) /\ \A k \in 1..(i - 1) : ~DeclMatchesAt(s, k)
    ELSE 0

\* the length of the (reqif|r): prefix the pattern matches at the head of s
\* after the opening characters, followed by [A-Z]; 0 when it does not match
PrefixedTagAt(s, long, short) ==
    IF StartsWithAt(s, 1, long) /\ Len(s) > Len(long) /\ s[Len(long) + 1] \in UpperCase
    THEN Len(long)
    ELSE IF StartsWithAt(s, 1, short) /\ Len(s) > Len(short) /\ s[Len(short) + 1] \in UpperCase
         THEN Len(short)
         ELSE 0

RECURSIVE StripTagPrefix(_, _, _, _)
\* re.sub(r'<(reqif|r):([A-Z])', r'<\2', s) and its closing-tag twin:
\* kept is "<" or "</", what the replacement leaves before the letter
StripTagPrefix(s, long, short, kept) ==
    IF s = <<>> THEN <<>>
    ELSE LET n == PrefixedTagAt(s, long, short)
         IN  IF n > 0
             THEN kept \o <<s[n + 1]>> \o StripTagPrefix(SubSeq(s, n + 2, Len(s)), long, short, kept)
             ELSE <<Head(s)>> \o StripTagPrefix(Tail(s), long, short, kept)

\* re.search(r'<REQ-IF[^>]+xmlns="', s)
HasDefaultXmlns(s) ==
    \E i \in 1..Len(s) :
        /\ StartsWithAt(s, i, RootTag)
        /\ \E j \in (i + Len(RootTag) + 1)..Len(s) :
              /\ StartsWithAt(s, j, XmlnsDefault)
              /\ \A k \in (i + Len(RootTag))..(j - 1) : s[k] # ">"

\* the length of xmlns:(reqif|r)= at index i of s, or 0
PrefixedXmlnsAt(s, i) ==
    IF StartsWithAt(s, i, XmlnsReqif) THEN Len(XmlnsReqif)
    ELSE IF StartsWithAt(s, i, XmlnsR) THEN Len(XmlnsR)
    ELSE 0

RECURSIVE RewritePrefixedXmlns(_)
\* re.sub(r'xmlns:(reqif|r)=', 'xmlns=', s)
RewritePrefixedXmlns(s) ==
    IF s = <<>> THEN <<>>
    ELSE LET n == PrefixedXmlnsAt(s, 1)
         IN  IF n > 0
             THEN XmlnsEquals \o RewritePrefixedXmlns(SubSeq(s, n + 1, Len(s)))
             ELSE <<Head(s)>> \o RewritePrefixedXmlns(Tail(s))

RECURSIVE SpaceRunEnd(_, _)
\* the index of the last character of the run of \s characters that starts at i
SpaceRunEnd(s, i) ==
    IF i < Len(s) /\ s[i + 1] \in RegexSpace THEN SpaceRunEnd(s, i + 1) ELSE i

\* the index of the closing quote of \s+xmlns:(reqif|r)="[^"]*" matched at the
\* head of s, or 0 when the pattern does not match there
RedundantXmlnsEnd(s) ==
    IF s = <<>> \/ Head(s) \notin RegexSpace THEN 0
    ELSE LET e == SpaceRunEnd(s, 1)
             n == PrefixedXmlnsAt(s, e + 1)
         IN  IF n = 0 \/ e + n + 1 > Len(s) \/ s[e + n + 1] # "\"" THEN 0
             ELSE IndexFrom(s, e + n + 2, "\"")

RECURSIVE RemoveRedundantXmlns(_)
\* re.sub(r'\s+xmlns:(reqif|r)="[^"]*"', '', s)
RemoveRedundantXmlns(s) ==
    IF s = <<>> THEN <<>>
    ELSE LET e == RedundantXmlnsEnd(s)
         IN  IF e > 0
             THEN RemoveRedundantXmlns(SubSeq(s, e + 1, Len(s)))
             ELSE <<Head(s)>> \o RemoveRedundantXmlns(Tail(s))

StripBom(s) == IF s # <<>> /\ Head(s) = BOM THEN Tail(s) ELSE s

StripBeforeDecl(s) == IF DeclStart(s) # 0 THEN SubSeq(s, DeclStart(s), Len(s)) ELSE s

StripTagPrefixes(s) ==
    StripTagPrefix(StripTagPrefix(s, OpenReqif, OpenR, <<"<">>), CloseReqif, CloseR, <<"<", "/">>)

NormalizeXmlns(s) ==
    IF ~HasDefaultXmlns(s) THEN RewritePrefixedXmlns(s) ELSE RemoveRedundantXmlns(s)

PreprocessReqifXml(s) == NormalizeXmlns(StripTagPrefixes(StripBeforeDecl(StripBom(s))))

(***************************************************************************)
(* Input texts: up to MaxPieces fragments, one after the other.            *)
(***************************************************************************)
MaxPieces == 3

Pieces ==
    { <<BOM>>,
      <<"x">>,
      <<"<", "?", "x", "m", "l", "?", ">">>,
      <<"<", "r", ":", "R", "E", "Q", "-", "I", "F">>,
      <<"<", "R", "E", "Q", "-", "I", "F">>,
      <<" ", "x", "m", "l", "n", "s", ":", "r", "=", "\"", "u", "\"">>,
      <<" ", "x", "m", "l", "n", "s", "=", "\"", "u", "\"">>,
      <<">">>,
      <<"<", "/", "r", "e", "q", "i", "f", ":", "A", ">">> }

Texts == {Concat(ps) : ps \in SeqsUpTo(Pieces, MaxPieces)}

(***************************************************************************)
(* The preprocessor specification: process_reqif_file reads a text and     *)
(* preprocesses it; the text it returned may be written out and read       *)
(* again by a later run.                                                   *)
(***************************************************************************)
PreprocessInit ==
    /\ content \in Texts
    /\ tree = <<>> /\ flattened = NotRun
    /\ bundle = NoContentBundle /\ bundle0 = NoContentBundle
    /\ PassIdle /\ OrchIdle /\ ArchIdle

Preprocess ==
    /\ content' = PreprocessReqifXml(content)
    /\ UNCHANGED <<bundle, bundle0, passVars, orchVars, archVars, tree, flattened>>

PreprocessNext == Preprocess

PreprocessSpec == PreprocessInit /\ [][PreprocessNext]_vars

\* C13: preprocessing a text the preprocessor returned gives that text back
\* (preprocess_reqif_xml(preprocess_reqif_xml(x)) = preprocess_reqif_xml(x)).
C13_PreprocessorIdempotent ==
    [][Preprocess => PreprocessReqifXml(content') = content']_vars

(***************************************************************************)
(* main_strictdoc.py, flatten_document on its own: the documents the       *)
(* converter delivers, serialized and flattened one at a time as           *)
(* process_reqif_file does.                                                *)
(***************************************************************************)
MaxFlatNodes == 3     \* nodes per document

Intro == <<"I", "n", "t", "r", "o">>
HelloMarkup == <<"<", "p", ">", "H", "e", "l", "l", "o", "<", "/", "p", ">">>
HelloWorldMarkup == <<"<", "p", ">", "H", "e", "l", "l", "o", " ", "<", "b", ">",
                      "W", "o", "r", "l", "d", "<", "/", "b", ">", "<", "/", "p", ">">>
HelloWorld == <<"H", "e", "l", "l", "o", " ", "W", "o", "r", "l", "d">>
LooseMarkup == <<" ", "<", "i", ">", "x", "<", "/", "i", ">", " ", " ", "y", "<", ">", " ">>

\* the fields a node may carry: a node need not have a UID (sections have
\* none), a TITLE or a STATEMENT, and a TITLE may be there and empty
FieldProfiles ==
    { ("UID" :> <<"a">>) @@ ("TITLE" :> Intro) @@ ("STATEMENT" :> HelloMarkup),
      ("UID" :> <<"b">>) @@ ("STATEMENT" :> HelloWorldMarkup),
      ("UID" :> <<"a">>) @@ ("TITLE" :> <<>>) @@ ("STATEMENT" :> LooseMarkup),
      ("UID" :> <<"b">>),
      ("TITLE" :> Intro) }

RECURSIVE SDocNodesOf(_)
\* the forest as the section_contents of a document: a node with children is composite
SDocNodesOf(forest) ==
    IF forest = <<>> THEN <<>>
    ELSE <<SDocNodeOf("REQUIREMENT", Head(forest).spec_object,
                      Head(forest).children # <<>>, SDocNodesOf(Head(forest).children))>>
         \o SDocNodesOf(Tail(forest))

FlatDocuments ==
    { DocumentOf("D", RequirementGrammar, SDocNodesOf(f)) : f \in ForestsUpTo(MaxFlatNodes, FieldProfiles) }

FlattenInit ==
    /\ tree \in {SerializeDocument(d) : d \in FlatDocuments}
    /\ flattened = NotRun
    /\ content = <<>>
    /\ bundle = NoContentBundle /\ bundle0 = NoContentBundle
    /\ PassIdle /\ OrchIdle /\ ArchIdle

\* reqs, links = flatten_document(doc_dict)
Flatten ==
    /\ ~flattened.ran
    /\ \E r \in {FlattenDocument(tree)} :
          flattened' = [requirements |-> r.requirements, links |-> r.links, ran |-> TRUE]
    /\ UNCHANGED <<bundle, bundle0, passVars, orchVars, archVars, content, tree>>

FlattenNext == Flatten

FlattenSpec == FlattenInit /\ [][FlattenNext]_vars

RECURSIVE NodeCount(_)
\* the number of nodes of a serialized forest
NodeCount(nodes) == IF nodes = <<>> THEN 0 ELSE 1 + NodeCount(Head(nodes).NODES) + NodeCount(Tail(nodes))

RECURSIVE Preorder(_)
\* the nodes of a serialized forest in the order the traversal visits them
Preorder(nodes) ==
    IF nodes = <<>> THEN <<>>
    ELSE <<Head(nodes)>> \o Preorder(Head(nodes).NODES) \o Preorder(Tail(nodes))

\* C14: the flattener emits one Link per parent->child edge it traverses: as
\* many Links as there are nodes that are not roots, whatever the ids are.
C14_OneLinkPerEdge ==
    flattened.ran => Len(flattened.links) = NodeCount(tree.NODES) - Len(tree.NODES)

\* C15: no two Requirements of one flattened output have the same id.
C15_RequirementIdsUnique ==
    flattened.ran =>
        \A i, j \in DOMAIN flattened.requirements :
            i # j => flattened.requirements[i].id # flattened.requirements[j].id

\* a complete tag <...> with something between the brackets starts at index i of s
TagAt(s, i) == s[i] = "<" /\ \E k \in (i + 2)..Len(s) : s[k] = ">" /\ \A l \in (i + 1)..(k - 1) : s[l] # ">"

\* text carries no markup and no loose whitespace: no complete tag, no
\* whitespace at either end, no two whitespace characters in a row
PlainText(s) ==
    /\ \A i \in DOMAIN s : ~TagAt(s, i)
    /\ s # <<>> => (s[1] \notin Whitespace /\ s[Len(s)] \notin Whitespace)
    /\ \A i \in 1..(Len(s) - 1) : ~(s[i] \in Whitespace /\ s[i + 1] \in Whitespace)

\* the name of the Requirement made from a serialized node follows the priority
NameDerived(node, req) ==
    LET title == Get(node.fields, "TITLE")
        text == Get(node.fields, "STATEMENT")
    IN  /\ title # <<>> => req.name = title
        /\ (title = <<>> /\ text = <<>>) => req.name = <<>>
        /\ (title = <<>> /\ text # <<>>) =>
              /\ PlainText(req.name)
              /\ text = HelloWorldMarkup => req.name = HelloWorld
              /\ text = LooseMarkup => req.name = <<"x", " ", "y", "<", ">">>
        /\ (title = Intro /\ text = HelloMarkup) => req.name = Intro

\* C18: the name of every Requirement is the title of its node when that is
\* not empty, otherwise the text attribute with its tags removed and its
\* whitespace collapsed and trimmed, and empty when both are empty; "Intro"
\* with "<p>Hello</p>" gives "Intro", no title with
\* "<p>Hello <b>World</b></p>" gives "Hello World".
C18_NameFromTitleThenText ==
    flattened.ran =>
        /\ Len(flattened.requirements) = NodeCount(tree.NODES)
        /\ \A i \in DOMAIN flattened.requirements :
              NameDerived(Preorder(tree.NODES)[i], flattened.requirements[i])

\* a flattened document with a titled node that also has a text (scenario A),
\* an untitled node with a text (scenario B) and a node with neither
C18_Witness ==
    /\ flattened.ran
    /\ \E i, j, k \in DOMAIN flattened.requirements :
          /\ Get(Preorder(tree.NODES)[i].fields, "TITLE") = Intro
          /\ Get(Preorder(tree.NODES)[i].fields, "STATEMENT") = HelloMarkup
          /\ flattened.requirements[i].name = Intro
          /\ Get(Preorder(tree.NODES)[j].fields, "TITLE") = <<>>
          /\ Get(Preorder(tree.NODES)[j].fields, "STATEMENT") = HelloWorldMarkup
          /\ flattened.requirements[j].name = HelloWorld
          /\ Get(Preorder(tree.NODES)[k].fields, "TITLE") = <<>>
          /\ Get(Preorder(tree.NODES)[k].fields, "STATEMENT") = <<>>
          /\ flattened.requirements[k].name = <<>>

(***************************************************************************)
(* The duplicate-field renaming pass, definition by definition.            *)
(***************************************************************************)
\* how many named definitions before the i-th have its normalized key
EarlierWithKey(defs, i) ==
    Cardinality({j \in 1..(i - 1) : /\ defs[j].long_name # None
                                    /\ SafeName(defs[j].long_name) = SafeName(defs[i].long_name)})

\* the display name the i-th definition is to have after the pass
SuffixedName(defs, i) ==
    IF EarlierWithKey(defs, i) = 0 THEN defs[i].long_name
    ELSE defs[i].long_name \o <<"_">> \o Str(EarlierWithKey(defs, i) + 1)

RECURSIVE RenameRecords(_, _)
\* the old -> new records of the definitions from the i-th on, in declaration order
RenameRecords(defs, i) ==
    IF i > Len(defs) THEN <<>>
    ELSE (IF defs[i].long_name # None /\ EarlierWithKey(defs, i) > 0
          THEN <<[old |-> defs[i].long_name, new |-> SuffixedName(defs, i)]>>
          ELSE <<>>) \o RenameRecords(defs, i + 1)

RECURSIVE RecordsOfTypes(_)
RecordsOfTypes(types) ==
    IF types = <<>> THEN <<>>
    ELSE RenameRecords(Head(types).attribute_definitions, 1) \o RecordsOfTypes(Tail(types))

SuffixesFollowOrder(before, after, returned) ==
    /\ \A t \in DOMAIN before.spec_types :
          LET defs == before.spec_types[t].attribute_definitions
          IN  \A i \in DOMAIN defs :
                  defs[i].long_name # None =>
                      after.spec_types[t].attribute_definitions[i].long_name = SuffixedName(defs, i)
    /\ returned = RecordsOfTypes(before.spec_types)

\* C19: fix_duplicate_field_names leaves the first definition of a SpecType
\* with a given normalized key its display name and gives the k-th later one
\* with that key its own display name followed by _<k+1>, counting per
\* SpecType and per key, and returns one old -> new record per rename in
\* declaration order.
C19_SuffixByOccurrence ==
    [][RunDuplicateFieldNames => SuffixesFollowOrder(bundle, bundle', lastReturn')]_vars

(***************************************************************************)
(* What the passes, in any number and order, leave of the Bundle the       *)
(* parser delivered.                                                       *)
(***************************************************************************)
RECURSIVE NodeRefs(_)
\* the SpecObject references of the nodes of a forest, at every depth
NodeRefs(nodes) ==
    UNION {{nodes[i].spec_object} \cup NodeRefs(nodes[i].children) : i \in DOMAIN nodes}

\* the existing SpecObjects that a HierarchyNode or a SpecRelation of b references
ValidReferenced(b) ==
    SpecObjectIds(b) \cap
        (UNION {NodeRefs(b.specifications[i].children) : i \in DOMAIN b.specifications}
         \cup {b.spec_relations[i].source : i \in DOMAIN b.spec_relations}
         \cup {b.spec_relations[i].target : i \in DOMAIN b.spec_relations})

RECURSIVE NodesIn(_)
\* the number of HierarchyNodes of a sequence of Specifications
NodesIn(specs) == IF specs = <<>> THEN 0 ELSE Size(Head(specs).children) + NodesIn(Tail(specs))

\* the reverse index of b has exactly the sources of its relations, each with
\* the targets of its relations in relation order
Mirrors(b) ==
    /\ DOMAIN b.lookup = {b.spec_relations[i].source : i \in DOMAIN b.spec_relations}
    /\ \A src \in DOMAIN b.lookup : b.lookup[src] = TargetsOf(b.spec_relations, src)

\* C17 (repair no-worsening): after any passes in any order, the existing
\* SpecObjects referenced by the surviving HierarchyNodes and SpecRelations
\* are no more than before the repair, there are no more nodes, relations or
\* SpecObjects than before, and a reverse index that mirrored the relations
\* before the repair mirrors them still.
C17_RepairNeverWorsens ==
    /\ Cardinality(ValidReferenced(bundle)) <= Cardinality(ValidReferenced(bundle0))
    /\ NodesIn(bundle.specifications) <= NodesIn(bundle0.specifications)
    /\ Len(bundle.spec_relations) <= Len(bundle0.spec_relations)
    /\ Len(bundle.spec_objects) <= Len(bundle0.spec_objects)
    /\ Mirrors(bundle0) => Mirrors(bundle)

\* the reference pass has pruned nodes and removed a relation, and kept a
\* relation, out of a Bundle whose index mirrored its relations
C17_Witness ==
    /\ lastPass = "refs"
    /\ Mirrors(bundle0)
    /\ NodesIn(bundle.specifications) < NodesIn(bundle0.specifications)
    /\ Len(bundle.spec_relations) < Len(bundle0.spec_relations)
    /\ bundle.spec_relations # <<>>

(***************************************************************************)
(* test_all_examples.py, test_file: the flattener over a Bundle, a primary *)
(* path over the hierarchies and a fallback over the SpecObjects.          *)
(* extract_requirement and extract_requirement_from_spec_object are        *)
(* imported from main and are not part of main.py as it stands; they       *)
(* follow section 4.4 of the specification.                                *)
(***************************************************************************)
\* parent_id=None
NoParent == ""

\* what extract_requirement returns when it has no Requirement to give
NoRequirement == [id |-> "", from |-> "nothing"]

RECURSIVE HierarchyPreorder(_)
\* bundle.iterate_specification_hierarchy: every node, depth first
HierarchyPreorder(nodes) ==
    IF nodes = <<>> THEN <<>>
    ELSE <<Head(nodes)>> \o HierarchyPreorder(Head(nodes).children) \o HierarchyPreorder(Tail(nodes))

RECURSIVE CollectNodes(_, _)
\* collect_nodes over a list of nodes: the assignments it makes, in order,
\* as [node, parent_id]
CollectNodes(nodes, parent_id) ==
    IF nodes = <<>> THEN <<>>
    ELSE <<[node |-> Head(nodes), parent_id |-> parent_id]>>
         \o CollectNodes(Head(nodes).children, Head(nodes).identifier)
         \o CollectNodes(Tail(nodes), parent_id)

\* the assignments of the loop of lines 119-120 over one Specification
Visits(specification) ==
    LET yielded == HierarchyPreorder(specification.children)
    IN  Concat([i \in DOMAIN yielded |-> CollectNodes(<<yielded[i]>>, NoParent)])

\* a dict filled by the assignments: a key stays where it was first put and
\* holds what was put last
DictOf(assignments) ==
    LET firsts == SelectSeq([i \in DOMAIN assignments |-> i],
                      LAMBDA i : \A j \in 1..(i - 1) : assignments[j].node.identifier # assignments[i].node.identifier)
        last(i) == CHOOSE k \in DOMAIN assignments :
                      /\ assignments[k].node.identifier = assignments[i].node.identifier
                      /\ \A l \in (k + 1)..Len(assignments) :
                            assignments[l].node.identifier # assignments[i].node.identifier
    IN  [n \in DOMAIN firsts |-> assignments[last(firsts[n])]]

\* node_map and parent_map of one Specification
NodeMap(specification) == DictOf(Visits(specification))
ParentMap(specification) ==
    DictOf(SelectSeq(Visits(specification), LAMBDA v : v.parent_id # NoParent))

\* extract_requirement(bundle, node): the Requirement of the node's SpecObject.
\* For a node whose SpecObject cannot be resolved it gives either nothing or a
\* Requirement made from the node alone (lenient).
ExtractRequirement(b, node, lenient) ==
    IF node.spec_object \in SpecObjectIds(b) THEN [id |-> node.spec_object, from |-> "hierarchy"]
    ELSE IF lenient THEN [id |-> node.identifier, from |-> "hierarchy"]
    ELSE NoRequirement

\* extract_requirement_from_spec_object(bundle, spec_object)
ExtractRequirementFromSpecObject(b, spec_object) ==
    [id |-> spec_object.identifier, from |-> "spec_object"]

\* lines 106-133 for one Specification
PrimaryOf(b, specification, lenient) ==
    LET node_map == NodeMap(specification)
        parent_map == ParentMap(specification)
        reqs == [i \in DOMAIN node_map |-> ExtractRequirement(b, node_map[i].node, lenient)]
    IN  [requirements |-> SelectSeq(reqs, LAMBDA req : req # NoRequirement),
         links |-> [i \in DOMAIN parent_map |->
                       [source |-> parent_map[i].parent_id, type |-> "hierarchy",
                        target |-> parent_map[i].node.identifier]]]

\* lines 105-133: the primary path over every Specification
Primary(b, lenient) ==
    LET each == [i \in DOMAIN b.specifications |-> PrimaryOf(b, b.specifications[i], lenient)]
    IN  [requirements |-> Concat([i \in DOMAIN each |-> each[i].requirements]),
         links |-> Concat([i \in DOMAIN each |-> each[i].links])]

\* a fallback taken only by a Bundle without Specifications
UseFallbackOnlyWithoutSpecs(b, primary) ==
    b.specifications = <<>> /\ b.spec_objects # <<>>

\* line 136: not extracted_from_hierarchy and content and content.spec_objects
UseFallback(b, primary) ==
    primary.requirements = <<>> /\ b.spec_objects # <<>>

\* lines 96-142 for one Bundle: all_requirements and all_links
TestFile(b, lenient) ==
    IF ~b.has_content THEN [requirements |-> <<>>, links |-> <<>>]
    ELSE LET primary == Primary(b, lenient)
         IN  IF UseFallback(b, primary)
             THEN [requirements |-> [i \in DOMAIN b.spec_objects |->
                                        ExtractRequirementFromSpecObject(b, b.spec_objects[i])],
                   links |-> primary.links]
             ELSE primary

TestBundles == {NoContentBundle} \cup HierarchyBundles \cup RelationBundles

TestFileInit ==
    /\ bundle \in TestBundles
    /\ bundle0 = bundle
    /\ flattened = NotRun
    /\ content = <<>> /\ tree = <<>>
    /\ PassIdle /\ OrchIdle /\ ArchIdle

RunTestFile ==
    /\ ~flattened.ran
    /\ \E lenient \in BOOLEAN : \E r \in {TestFile(bundle, lenient)} :
          flattened' = [requirements |-> r.requirements, links |-> r.links, ran |-> TRUE]
    /\ UNCHANGED <<bundle, bundle0, passVars, orchVars, archVars, content, tree>>

TestFileNext == RunTestFile

TestFileSpec == TestFileInit /\ [][TestFileNext]_vars

IsEmptyValue(v) ==
    \/ v.kind = "none"
    \/ v.kind = "str" /\ \A i \in DOMAIN v.text : v.text[i] \in Whitespace

\* the n-th member of the set of indices, in increasing order
NthOf(indices, n) == CHOOSE k \in indices : Cardinality({j \in indices : j <= k}) = n

\* part is what is left of whole when exactly the members at the indices are
\* kept, in their order
KeepsExactly(whole, indices, part) ==
    /\ Len(part) = Cardinality(indices)
    /\ \A n \in 1..Len(part) : part[n] = whole[NthOf(indices, n)]

EmptyValuesPruned(before, after, returned) ==
    LET losers == {i \in DOMAIN before.spec_objects :
                      \E k \in DOMAIN before.spec_objects[i].attributes :
                          IsEmptyValue(before.spec_objects[i].attributes[k].value)}
    IN  /\ Len(after.spec_objects) = Len(before.spec_objects)
        /\ \A i \in DOMAIN before.spec_objects :
              LET attrs == before.spec_objects[i].attributes
              IN  /\ after.spec_objects[i].identifier = before.spec_objects[i].identifier
                  /\ KeepsExactly(attrs, {k \in DOMAIN attrs : ~IsEmptyValue(attrs[k].value)},
                                  after.spec_objects[i].attributes)
        /\ KeepsExactly([i \in DOMAIN before.spec_objects |-> before.spec_objects[i].identifier],
                        losers, returned)

\* C21: fix_empty_attribute_values leaves no Attribute whose value is None or
\* a text that is empty once trimmed, keeps every other Attribute (false and 0
\* among them) in its order, and returns the identifiers, in object order, of
\* exactly the SpecObjects that lost an Attribute.
C21_EmptyValuesPruned ==
    [][RunEmptyAttributeValues => EmptyValuesPruned(bundle, bundle', lastReturn')]_vars

\* the pass took the empty, the blank or the missing value from the first
\* SpecObject and the blank one from the third, kept false and 0, and passed
\* over the second
C21_Witness ==
    /\ lastPass = "empty"
    /\ lastReturn = <<"o1", "o3">>
    /\ Len(bundle0.spec_objects) = 3
    /\ Len(bundle0.spec_objects[1].attributes) = 2
    /\ \E k \in DOMAIN bundle.spec_objects[1].attributes :
          bundle.spec_objects[1].attributes[k].value \in {BoolValue(FALSE), IntValue(0)}
    /\ bundle.spec_objects[3].attributes = AttributesOf(<<BoolValue(FALSE)>>)
    /\ Len(bundle0.spec_objects[3].attributes) = 2

(***************************************************************************)
(* The pruning of the hierarchies, node by node.                           *)
(***************************************************************************)
RECURSIVE Classified(_, _, _)
\* the nodes of a forest in document order, each with whether it and all its
\* ancestors reference a member of ids (survives) and whether it is the first
\* on its path that does not (topmost)
Classified(nodes, ids, path_valid) ==
    IF nodes = <<>> THEN <<>>
    ELSE LET node == Head(nodes)
             valid == node.spec_object \in ids
         IN  <<[identifier |-> node.identifier, spec_object |-> node.spec_object,
                survives |-> path_valid /\ valid, topmost |-> path_valid /\ ~valid]>>
             \o Classified(node.children, ids, path_valid /\ valid)
             \o Classified(Tail(nodes), ids, path_valid)

\* the parent -> child edges of a forest, roots as children of NoParent
EdgesOf(nodes) ==
    LET visits == CollectNodes(nodes, NoParent)
    IN  {<<visits[i].parent_id, visits[i].node.identifier>> : i \in DOMAIN visits}

\* after is before without the subtrees of its topmost invalid nodes
SubtreesRemoved(before, after, ids) ==
    LET was == Classified(before, ids, TRUE)
        is == HierarchyPreorder(after)
        survivors == SelectSeq(was, LAMBDA n : n.survives)
    IN  /\ [i \in DOMAIN is |-> is[i].identifier] = [i \in DOMAIN survivors |-> survivors[i].identifier]
        /\ [i \in DOMAIN is |-> is[i].spec_object] = [i \in DOMAIN survivors |-> survivors[i].spec_object]
        /\ EdgesOf(after) = {e \in EdgesOf(before) : \E i \in DOMAIN survivors : survivors[i].identifier = e[2]}

\* the identifiers of the topmost invalid nodes of the Specifications, in order
RECURSIVE TopmostRemoved(_, _)
TopmostRemoved(specs, ids) ==
    IF specs = <<>> THEN <<>>
    ELSE LET top == SelectSeq(Classified(Head(specs).children, ids, TRUE), LAMBDA n : n.topmost)
         IN  [i \in DOMAIN top |-> top[i].identifier] \o TopmostRemoved(Tail(specs), ids)

HierarchyPruned(before, after, returned) ==
    LET records == SelectSeq(returned, LAMBDA r : r.what = "hierarchy")
    IN  /\ Len(after.specifications) = Len(before.specifications)
        /\ \A i \in DOMAIN before.specifications :
              SubtreesRemoved(before.specifications[i].children, after.specifications[i].children,
                              SpecObjectIds(before))
        /\ [i \in DOMAIN records |-> records[i].id] = TopmostRemoved(before.specifications, SpecObjectIds(before))

\* C22: the pruning of fix_missing_spec_object_refs removes subtrees and
\* nothing else: a node survives exactly when its reference and those of all
\* its ancestors are valid, survivors keep their order and their parents, and
\* there is one hierarchy:<id> record for each topmost removed node and none
\* for what is dropped below it.
C22_PruningIsSubtreeRemoval ==
    [][RunMissingSpecObjectRefs => HierarchyPruned(bundle, bundle', lastReturn')]_vars

\* a node with a valid reference went with its invalid parent, whose own
\* parent stayed, and one record was made
C22_Witness ==
    /\ lastPass = "refs"
    /\ Len(SelectSeq(lastReturn, LAMBDA r : r.what = "hierarchy")) = 1
    /\ \E i \in DOMAIN bundle0.specifications :
          LET was == Classified(bundle0.specifications[i].children, SpecObjectIds(bundle0), TRUE)
          IN  /\ \E n \in DOMAIN was : ~was[n].survives /\ ~was[n].topmost
                                       /\ was[n].spec_object \in SpecObjectIds(bundle0)
              /\ \E n \in DOMAIN was : was[n].survives
              /\ NodesIn(<<bundle.specifications[i]>>) = 1
              /\ Depth(bundle0.specifications[i].children) = 3

(***************************************************************************)
(* The orchestrator when both conversions fail.                            *)
(***************************************************************************)
\* the place of a pass in apply_workarounds
PassRank == [pass \in {"types", "names", "dups", "empty", "refs"} |->
                CASE pass = "types" -> 1 [] pass = "names" -> 2 [] pass = "dups" -> 3
                  [] pass = "empty" -> 4 [] pass = "refs" -> 5]

\* the descriptions are of different passes, in the order the passes run
InPassOrder(descriptions) ==
    \A i, j \in DOMAIN descriptions :
        i < j => PassRank[descriptions[i].pass] < PassRank[descriptions[j].pass]

\* C23: when the first conversion fails, the passes report a change and the
\* second conversion fails too, convert_reqif_to_json returns a failure with
\* the error of the second conversion, no data, and all the descriptions of
\* the passes that changed something, in pass order; the Bundle is left as
\* the passes made it.
C23_RetryFailureReported ==
    (pc = "done" /\ Len(trace) = 3 /\ ~trace[3].result.success) =>
        /\ ~ret.success
        /\ ret.error # NoError
        /\ ret.error = trace[3].result.error
        /\ ~ret.data.present
        /\ ret.workarounds_applied # <<>>
        /\ ret.workarounds_applied = ApplyWorkarounds(bundle0).ret
        /\ InPassOrder(ret.workarounds_applied)
        /\ bundle = ApplyWorkarounds(bundle0).bundle

\* the two conversions failed with different errors, all five passes changed
\* the Bundle in between, and the failure has been returned
C23_Witness ==
    /\ pc = "done"
    /\ Len(trace) = 3
    /\ ~trace[3].result.success
    /\ trace[1].result.error # trace[3].result.error
    /\ ret.error = trace[3].result.error
    /\ Len(ret.workarounds_applied) = 5
    /\ bundle # bundle0

====
